---- MODULE Spec2Model ----
(***************************************************************************)
(* Videoflix: the asynchronous video ingestion pipeline.                   *)
(*                                                                         *)
(* Video.save (models.py) pre-validates a new asset, inserts the record,   *)
(* the post_save receiver process_video (signals.py) queues the job, and   *)
(* Video.save queues it again through handle_video_processing_queue.       *)
(* Worker processes run process_video_with_thumbnail (utils/core.py):      *)
(* load, set processing, re-validate, thumbnail, HLS conversion, final     *)
(* status.  The record store, the queue backend, the filesystem and the    *)
(* external tools may fail at every access; their answers are inputs.      *)
(***************************************************************************)
EXTENDS Integers, Sequences, FiniteSets, TLC

\* ---------------------------------------------------------------- bounds
MaxVideos == 1

NumWorkers == 2

MaxOtherJobs == 51

\* thumbnail uploads and regenerations that happen
MaxThumbnailOps == 1
\* deletions of assets in one behaviour
MaxDeletes == 1
\* jobs in the queue above which no read request is looked at
MaxQueuedJobs == 3

\* ------------------------------------------------------ program constants
QueueThreshold == 50

MaxVideoSize == 105381888

MaxRetries == 3

NumProfiles == 5
\* comprehensive_video_validator: seconds and pixels
MinDuration == 1
MaxDuration == 7200
MinWidth == 320
MinHeight == 240
MaxWidth == 3840
MaxHeight == 2160

\* ------------------------------------------------------------ value sets
VideoIds == 1..MaxVideos

Workers == 1..NumWorkers

NoVideo == 0

PROCESSING_STATUS == {"pending", "processing", "completed", "failed"}

\* Jobs of other producers on the shared 'default' queue (e-mail tasks,
\* thumbnail regeneration): their number at the moment the depth is read.
OtherJobs == {0} \cup (QueueThreshold..MaxOtherJobs)

\* The source file as the filesystem shows it at one access.
FileSizes == {0, 52428800, MaxVideoSize, MaxVideoSize + 1, 157286400}

GoodFile == [exists |-> TRUE, readable |-> TRUE, size |-> 52428800]

FileStates ==
    {[exists |-> FALSE, readable |-> FALSE, size |-> 0],
     [exists |-> TRUE, readable |-> FALSE, size |-> 52428800]}
    \cup {[exists |-> TRUE, readable |-> TRUE, size |-> s] : s \in FileSizes}

Titles == {"", " ", "Movie"}

\* str.strip() on the titles and descriptions of the model
Strip(s) == IF s = " " THEN "" ELSE s

\* What a creating request hands to Video.save.
Uploads ==
    {[video_file |-> TRUE, file |-> f, title |-> "Movie", description |-> "Text",
      category |-> TRUE, thumbnail |-> FALSE] : f \in FileStates}
    \cup {[video_file |-> TRUE, file |-> GoodFile, title |-> t, description |-> "Text",
           category |-> TRUE, thumbnail |-> FALSE] : t \in Titles}
    \cup {[video_file |-> TRUE, file |-> GoodFile, title |-> "Movie", description |-> d,
           category |-> TRUE, thumbnail |-> FALSE] : d \in Titles}
    \cup {[video_file |-> TRUE, file |-> GoodFile, title |-> "Movie", description |-> "Text",
           category |-> c, thumbnail |-> th] : c \in BOOLEAN, th \in BOOLEAN}
    \cup {[video_file |-> FALSE, file |-> GoodFile, title |-> "Movie", description |-> "Text",
           category |-> TRUE, thumbnail |-> FALSE]}

\* Answers of 'ffmpeg -version' and of ffprobe at one validation.
ToolStates ==
    {[ffmpeg |-> "ok", ffprobe |-> "ok"],
     [ffmpeg |-> "nonzero", ffprobe |-> "ok"],
     [ffmpeg |-> "timeout", ffprobe |-> "ok"],
     [ffmpeg |-> "notfound", ffprobe |-> "ok"],
     [ffmpeg |-> "ok", ffprobe |-> "nonzero"],
     [ffmpeg |-> "ok", ffprobe |-> "timeout"]}

\* The filesystem and the tools as one validation finds them: at most one
\* thing is wrong at a time.
Environments ==
    {[file |-> f, tools |-> [ffmpeg |-> "ok", ffprobe |-> "ok"]] : f \in FileStates}
    \cup {[file |-> GoodFile, tools |-> t] : t \in ToolStates}

\* The queue backend at one call of queue_video_processing.
QueueStates == {"ok", "unreachable", "enqueue_error"}

\* ------------------------------------------------------- pure validators
validate_video_file_exists(video_file, f) ==
    IF ~video_file THEN "No video file provided"
    ELSE IF ~f.exists THEN "Video file does not exist"
    ELSE IF ~f.readable THEN "Video file is not readable"
    ELSE "ok"

validate_video_file_size(f) ==
    IF f.size = 0 THEN "Video file is empty"
    ELSE IF f.size > MaxVideoSize THEN "Video file too large"
    ELSE "ok"

validate_video_metadata(title, description, category) ==
    IF title = "" \/ Strip(title) = "" THEN "Video title is required"
    ELSE IF description = "" \/ Strip(description) = "" THEN "Video description is required"
    ELSE IF ~category THEN "Video category is required"
    ELSE "ok"

\* Video._validate_before_processing: the first check that raises
ValidateBeforeProcessing(u) ==
    LET e1 == validate_video_file_exists(u.video_file, u.file)
        e2 == validate_video_file_size(u.file)
        e3 == validate_video_metadata(u.title, u.description, u.category)
    IN  IF e1 # "ok" THEN e1 ELSE IF e2 # "ok" THEN e2 ELSE e3

handle_new_video_save(u) ==
    IF ValidateBeforeProcessing(u) = "ok" THEN "none" ELSE "failed"

validate_video_for_processing(video_file, f, t, title, category) ==
    IF ~video_file THEN FALSE
    ELSE IF ~f.exists THEN FALSE
    ELSE IF ~f.readable THEN FALSE
    ELSE IF f.size = 0 THEN FALSE
    ELSE IF f.size > MaxVideoSize THEN FALSE
    ELSE IF t.ffmpeg # "ok" THEN FALSE
    ELSE IF t.ffprobe # "ok" THEN FALSE
    ELSE IF title = "" \/ Strip(title) = "" THEN FALSE
    ELSE IF ~category THEN FALSE
    ELSE TRUE

\* ------------------------------------------ comprehensive_video_validator
ALLOWED_EXTENSIONS == {"mp4", "avi", "mov", "mkv"}

\* The uploaded file as the validator sees it: file.size in bytes and the
\* lower-cased extension of file.name.
UploadedFiles ==
    {[present |-> FALSE, size |-> 0, ext |-> ""]}
    \cup {[present |-> TRUE, size |-> n, ext |-> x] :
            n \in {0, 52428800, MaxVideoSize, MaxVideoSize + 1},
            x \in ALLOWED_EXTENSIONS \cup {"txt"}}

\* What ffprobe prints for a file it can read: the number of video
\* streams, the duration in milliseconds, the frame of the first stream.
ProbeData ==
    [streams : {0, 1},
     duration : {0, 500, MinDuration * 1000, MaxDuration * 1000, (MaxDuration + 1) * 1000},
     width : {0, MinWidth - 1, MinWidth, MaxWidth, MaxWidth + 1},
     height : {MinHeight - 1, MinHeight, MaxHeight, MaxHeight + 1}]

NoProbeData == [streams |-> 0, duration |-> 0, width |-> 0, height |-> 0]

\* The run of ffprobe: "nonzero" exit code, "timeout" after 30 s,
\* "notfound" (no ffprobe binary), "badjson" (output that does not parse).
ProbeResults ==
    {[rc |-> r, data |-> NoProbeData] : r \in {"nonzero", "timeout", "notfound", "badjson"}}
    \cup {[rc |-> "ok", data |-> d] : d \in ProbeData}

\* The surroundings of one call: the answer of 'ffmpeg -version', whether
\* the chunks of the upload could be written to the temporary file, the
\* run of ffprobe, and whether os.unlink of the temporary file worked.
ValidatorEnvs ==
    [tool : {"ok", "nonzero", "timeout", "notfound"},
     copy : {"ok", "error"},
     probe : ProbeResults,
     unlink : {"ok", "error"}]

\* The check of the tool (validators.py 57-67): the error it raises.
tool_check(tool) ==
    IF tool = "nonzero" THEN "tool_unavailable"
    ELSE IF tool = "timeout" THEN "tool_not_responding"
    ELSE IF tool = "notfound" THEN "tool_not_installed"
    ELSE "none"

\* Variant of the probe checks that lets a frame lower than the minimum pass.
probe_checks_any_height(p) ==
    IF p.rc = "nonzero" THEN "corrupted"
    ELSE IF p.rc = "badjson" THEN "no_file_information"
    ELSE IF p.data.streams = 0 THEN "no_video_stream"
    ELSE IF p.data.duration <= 0 THEN "no_duration"
    ELSE IF p.data.duration > MaxDuration * 1000 THEN "too_long"
    ELSE IF p.data.duration < MinDuration * 1000 THEN "too_short"
    ELSE IF p.data.width <= 0 \/ p.data.height <= 0 THEN "invalid_dimensions"
    ELSE IF p.data.width > MaxWidth \/ p.data.height > MaxHeight THEN "resolution_too_high"
    ELSE IF p.data.width < MinWidth THEN "resolution_too_low"
    ELSE "none"

\* The checks on the output of ffprobe (validators.py 87-135), for a run
\* that returned: the error raised, "none" when every check passes.
probe_checks(p) ==
    IF p.rc = "nonzero" THEN "corrupted"
    ELSE IF p.rc = "badjson" THEN "no_file_information"
    ELSE IF p.data.streams = 0 THEN "no_video_stream"
    ELSE IF p.data.duration <= 0 THEN "no_duration"
    ELSE IF p.data.duration > MaxDuration * 1000 THEN "too_long"
    ELSE IF p.data.duration < MinDuration * 1000 THEN "too_short"
    ELSE IF p.data.width <= 0 \/ p.data.height <= 0 THEN "invalid_dimensions"
    ELSE IF p.data.width > MaxWidth \/ p.data.height > MaxHeight THEN "resolution_too_high"
    ELSE IF p.data.width < MinWidth \/ p.data.height < MinHeight THEN "resolution_too_low"
    ELSE "none"

\* The deep validation (validators.py 70-146).  copied: the temporary file
\* was created; probed: ffprobe was started; temp: the temporary file is on
\* disk when the validator is left.  The only os.unlink is in the finally
\* of the block that runs ffprobe, which is entered after the copy.
deep_validation(e) ==
    IF e.copy = "error"
    THEN [error |-> "unexpected", copied |-> TRUE, probed |-> FALSE, temp |-> TRUE]
    ELSE [error |-> IF e.probe.rc = "timeout" THEN "probe_timeout"
                    ELSE IF e.probe.rc = "notfound" THEN "unexpected"
                    ELSE probe_checks(e.probe),
          copied |-> TRUE, probed |-> TRUE, temp |-> e.unlink = "error"]

NotStarted == [error |-> "none", copied |-> FALSE, probed |-> FALSE, temp |-> FALSE]

ValidatorResult(error, tool_invoked, deep) ==
    [accepted |-> error = "none", error |-> error, tool_invoked |-> tool_invoked,
     copied |-> deep.copied, probed |-> deep.probed, temp |-> deep.temp]

\* Variant of the validator that asks for the tool before it looks at the file.
comprehensive_video_validator_tool_first(f, e) ==
    IF ~f.present THEN ValidatorResult("no_file", FALSE, NotStarted)
    ELSE IF tool_check(e.tool) # "none" THEN ValidatorResult(tool_check(e.tool), TRUE, NotStarted)
    ELSE IF f.size = 0 THEN ValidatorResult("empty", TRUE, NotStarted)
    ELSE IF f.size > MaxVideoSize THEN ValidatorResult("too_large", TRUE, NotStarted)
    ELSE IF f.ext \notin ALLOWED_EXTENSIONS THEN ValidatorResult("extension", TRUE, NotStarted)
    ELSE LET d == deep_validation(e) IN ValidatorResult(d.error, TRUE, d)

\* comprehensive_video_validator: every error leaves it as a ValidationError.
comprehensive_video_validator(f, e) ==
    IF ~f.present THEN ValidatorResult("no_file", FALSE, NotStarted)
    ELSE IF f.size = 0 THEN ValidatorResult("empty", FALSE, NotStarted)
    ELSE IF f.size > MaxVideoSize THEN ValidatorResult("too_large", FALSE, NotStarted)
    ELSE IF f.ext \notin ALLOWED_EXTENSIONS THEN ValidatorResult("extension", FALSE, NotStarted)
    ELSE IF tool_check(e.tool) # "none" THEN ValidatorResult(tool_check(e.tool), TRUE, NotStarted)
    ELSE LET d == deep_validation(e) IN ValidatorResult(d.error, TRUE, d)

\* ------------------------------------------------------------- enqueueing
\* A narrow save of processing_status: the persisted value after it.
SaveStatus(persisted, value, accepted) == IF accepted THEN value ELSE persisted

\* Variant of queue_video_processing that treats an unreachable queue like an
\* overloaded one: the asset is left pending for a later attempt.
queue_video_processing_defers(persisted, valid, q, depth, w1, w2) ==
    IF ~valid THEN
        [ret |-> FALSE, enq |-> FALSE,
         status |-> IF w1 THEN "failed" ELSE SaveStatus(persisted, "failed", w2)]
    ELSE IF q = "unreachable" \/ depth > QueueThreshold THEN
        [ret |-> FALSE, enq |-> FALSE,
         status |-> IF w1 THEN "pending" ELSE SaveStatus(persisted, "failed", w2)]
    ELSE IF q = "enqueue_error" THEN
        [ret |-> FALSE, enq |-> FALSE, status |-> SaveStatus(persisted, "failed", w1)]
    ELSE [ret |-> TRUE, enq |-> TRUE, status |-> persisted]

\* Variant of queue_video_processing that defers at a depth equal to the
\* threshold (">=" for ">").
queue_video_processing_ge(persisted, valid, q, depth, w1, w2) ==
    IF ~valid \/ q = "unreachable" THEN
        [ret |-> FALSE, enq |-> FALSE,
         status |-> IF w1 THEN "failed" ELSE SaveStatus(persisted, "failed", w2)]
    ELSE IF depth >= QueueThreshold THEN
        [ret |-> FALSE, enq |-> FALSE,
         status |-> IF w1 THEN "pending" ELSE SaveStatus(persisted, "failed", w2)]
    ELSE IF q = "enqueue_error" THEN
        [ret |-> FALSE, enq |-> FALSE, status |-> SaveStatus(persisted, "failed", w1)]
    ELSE [ret |-> TRUE, enq |-> TRUE, status |-> persisted]

\* queue_video_processing.  valid: the answer of validate_video_for_processing;
\* q: the queue backend; depth: len(queue); w1, w2: whether the record store
\* accepts the first save and the save of the outer handler.
\* ret: the return value; enq: a job was added; status: the persisted status.
queue_video_processing(persisted, valid, q, depth, w1, w2) ==
    IF ~valid \/ q = "unreachable" THEN
        [ret |-> FALSE, enq |-> FALSE,
         status |-> IF w1 THEN "failed" ELSE SaveStatus(persisted, "failed", w2)]
    ELSE IF depth > QueueThreshold THEN
        [ret |-> FALSE, enq |-> FALSE,
         status |-> IF w1 THEN "pending" ELSE SaveStatus(persisted, "failed", w2)]
    ELSE IF q = "enqueue_error" THEN
        [ret |-> FALSE, enq |-> FALSE, status |-> SaveStatus(persisted, "failed", w1)]
    ELSE [ret |-> TRUE, enq |-> TRUE, status |-> persisted]

\* Variant of the receiver that marks the asset failed whatever
\* queue_video_processing returned.
process_video_marks_failed(created_status, video_file, valid, q, depth, d) ==
    IF ~video_file THEN [enq |-> FALSE, status |-> created_status]
    ELSE IF created_status \in {"processing", "completed"} THEN
        [enq |-> FALSE, status |-> created_status]
    ELSE
        LET s0 == IF created_status = "pending"
                  THEN SaveStatus(created_status, "pending", d[1])
                  ELSE created_status
            r == queue_video_processing(s0, valid, q, depth, d[2], d[3])
        IN  [enq |-> r.enq, status |-> SaveStatus(r.status, "failed", d[4])]

\* The post_save receiver, for created = True.  created_status: the status the
\* record was inserted with; d: the record store's answers to the four saves.
process_video(created_status, video_file, valid, q, depth, d) ==
    IF ~video_file THEN [enq |-> FALSE, status |-> created_status]
    ELSE IF created_status \in {"processing", "completed"} THEN
        [enq |-> FALSE, status |-> created_status]
    ELSE
        LET s0 == IF created_status = "pending"
                  THEN SaveStatus(created_status, "pending", d[1])
                  ELSE created_status
            r == queue_video_processing(s0, valid, q, depth, d[2], d[3])
        IN  IF r.ret THEN [enq |-> r.enq, status |-> r.status]
            ELSE [enq |-> r.enq, status |-> SaveStatus(r.status, "failed", d[4])]

\* handle_video_processing_queue: 'failed' only when queue_video_processing
\* raises, which its own handlers never let happen.
handle_video_processing_queue(raised) == IF raised THEN "failed" ELSE "none"

\* --------------------------------------------------------- the worker job
\* One attempt's surroundings: the source file is there, a frame could be
\* extracted at one of the timestamps, the record store accepts the save;
\* leftover: no frame was extracted and the last run of the extractor left
\* a file (an empty image) at the temporary path.
ThumbEnvs ==
    {[source |-> FALSE, extracted |-> FALSE, leftover |-> FALSE, db |-> TRUE],
     [source |-> TRUE, extracted |-> FALSE, leftover |-> FALSE, db |-> TRUE],
     [source |-> TRUE, extracted |-> FALSE, leftover |-> TRUE, db |-> TRUE],
     [source |-> TRUE, extracted |-> TRUE, leftover |-> FALSE, db |-> FALSE],
     [source |-> TRUE, extracted |-> TRUE, leftover |-> FALSE, db |-> TRUE]}

DefaultEnvs ==
    {[pil |-> FALSE, db |-> TRUE], [pil |-> TRUE, db |-> FALSE], [pil |-> TRUE, db |-> TRUE]}

\* stored: thumbnail.save wrote the file and set the name on the instance;
\* saved: the instance.save() it ends with was accepted; temp: the temporary
\* file is on disk when it returns (given whether it was before).
generate_video_thumbnail_for_instance(e, temp) ==
    IF ~e.source
    THEN [success |-> FALSE, stored |-> FALSE, saved |-> FALSE, temp |-> temp]
    ELSE IF ~e.extracted
    THEN [success |-> FALSE, stored |-> FALSE, saved |-> FALSE, temp |-> temp \/ e.leftover]
    ELSE IF ~e.db THEN [success |-> FALSE, stored |-> TRUE, saved |-> FALSE, temp |-> FALSE]
    ELSE [success |-> TRUE, stored |-> TRUE, saved |-> TRUE, temp |-> FALSE]

create_default_thumbnail(e) ==
    IF ~e.pil THEN [success |-> FALSE, stored |-> FALSE, saved |-> FALSE]
    ELSE IF ~e.db THEN [success |-> FALSE, stored |-> TRUE, saved |-> FALSE]
    ELSE [success |-> TRUE, stored |-> TRUE, saved |-> TRUE]

\* The retry loop of _process_video_thumbnail from attempt on.
RECURSIVE thumbnail_attempts(_, _, _, _)
thumbnail_attempts(envs, attempt, stored, temp) ==
    IF attempt > MaxRetries
    THEN [success |-> FALSE, stored |-> stored, attempts |-> MaxRetries, temp |-> temp]
    ELSE LET g == generate_video_thumbnail_for_instance(envs[attempt], temp)
         IN  IF g.success
             THEN [success |-> TRUE, stored |-> TRUE, attempts |-> attempt, temp |-> g.temp]
             ELSE thumbnail_attempts(envs, attempt + 1, stored \/ g.stored, g.temp)

\* Variant of _process_video_thumbnail without the check for an existing
\* thumbnail: it always generates.
process_video_thumbnail_regenerates(name, on_disk, envs, denv, temp) ==
    LET a == thumbnail_attempts(envs, 1, FALSE, temp)
        dflt == create_default_thumbnail(denv)
    IN  IF a.success
        THEN [success |-> TRUE, name |-> TRUE, file |-> TRUE, saved |-> TRUE,
              attempts |-> a.attempts, default |-> FALSE, temp |-> a.temp]
        ELSE [success |-> dflt.success,
              name |-> name \/ a.stored \/ dflt.stored,
              file |-> on_disk \/ a.stored \/ dflt.stored,
              saved |-> dflt.saved, attempts |-> a.attempts, default |-> TRUE,
              temp |-> a.temp]

\* Variant of _process_video_thumbnail that gives up after the retries
\* without the placeholder.
process_video_thumbnail_no_fallback(name, on_disk, envs, denv, temp) ==
    IF name /\ on_disk
    THEN [success |-> TRUE, name |-> name, file |-> on_disk, saved |-> FALSE,
          attempts |-> 0, default |-> FALSE, temp |-> temp]
    ELSE LET a == thumbnail_attempts(envs, 1, FALSE, temp)
         IN  [success |-> a.success, name |-> name \/ a.stored,
              file |-> on_disk \/ a.stored, saved |-> a.success,
              attempts |-> a.attempts, default |-> FALSE, temp |-> a.temp]

\* _process_video_thumbnail.  name: the instance has a thumbnail name;
\* on_disk: a non-empty file is there.  saved: a full instance.save() was
\* accepted; attempts: calls of the frame extractor; default: the
\* placeholder generator was called.
process_video_thumbnail(name, on_disk, envs, denv, temp) ==
    IF name /\ on_disk
    THEN [success |-> TRUE, name |-> name, file |-> on_disk, saved |-> FALSE,
          attempts |-> 0, default |-> FALSE, temp |-> temp]
    ELSE LET a == thumbnail_attempts(envs, 1, FALSE, temp)
             dflt == create_default_thumbnail(denv)
         IN  IF a.success
             THEN [success |-> TRUE, name |-> TRUE, file |-> TRUE, saved |-> TRUE,
                   attempts |-> a.attempts, default |-> FALSE, temp |-> a.temp]
             ELSE [success |-> dflt.success,
                   name |-> name \/ a.stored \/ dflt.stored,
                   file |-> on_disk \/ a.stored \/ dflt.stored,
                   saved |-> dflt.saved, attempts |-> a.attempts, default |-> TRUE,
                   temp |-> a.temp]

\* The gate before convert_video_to_hls.
hls_gate(thumbnail_success, thumbnail) == thumbnail_success \/ thumbnail

\* prepare_video_conversion: "ok", "none" (no usable source file) or
\* "raised" (os.makedirs of the HLS root failed).
prepare_video_conversion(video_file, f, mkdir_ok) ==
    IF ~video_file THEN "none"
    ELSE IF ~f.exists THEN "none"
    ELSE IF ~f.readable THEN "none"
    ELSE IF ~mkdir_ok THEN "raised"
    ELSE "ok"

\* The set of three profiles of an earlier revision.
get_resolution_configs_three ==
    <<[name |-> "480p", width |-> 854, height |-> 480, bitrate |-> "1000k"],
      [name |-> "720p", width |-> 1280, height |-> 720, bitrate |-> "2500k"],
      [name |-> "1080p", width |-> 1920, height |-> 1080, bitrate |-> "5000k"]>>

get_resolution_configs ==
    <<[name |-> "120p", width |-> 214, height |-> 120, bitrate |-> "300k"],
      [name |-> "360p", width |-> 640, height |-> 360, bitrate |-> "800k"],
      [name |-> "480p", width |-> 854, height |-> 480, bitrate |-> "1200k"],
      [name |-> "720p", width |-> 1280, height |-> 720, bitrate |-> "2500k"],
      [name |-> "1080p", width |-> 1920, height |-> 1080, bitrate |-> "5000k"]>>

\* One profile: the directory of the profile, then the encoder.
\* "ok": exit code 0 with index.m3u8 written; "ok_nomanifest": exit code 0
\* and no index.m3u8 in the directory of the profile.
EncoderOutcomes == {"ok", "ok_nomanifest", "nonzero", "timeout", "mkdir_error"}

convert_single_resolution(o) ==
    IF o = "mkdir_error" THEN "raised"
    ELSE IF o = "timeout" THEN "False"
    ELSE IF o = "nonzero" THEN "False"
    ELSE "True"

\* finalize_video_conversion: "True", "False" or "raised" (save rejected).
finalize_video_conversion(success_count, accepted) ==
    IF success_count > 0 THEN (IF accepted THEN "True" ELSE "raised") ELSE "False"

\* A full instance.save() of a worker's instance, whose status is
\* 'processing': every field is written from the instance, and a row that
\* is no longer there is inserted again.
FullSave(rec, inst, thumbnail, hls_processed) ==
    [exists |-> TRUE, video_file |-> inst.video_file, title |-> inst.title,
     category |-> inst.category, status |-> "processing", thumbnail |-> thumbnail,
     hls_processed |-> hls_processed]

\* A full save() of an instance loaded earlier: every field of the record is
\* written from the instance.
InstanceSave(rec, status, thumbnail, hls_processed) ==
    [rec EXCEPT !.status = status, !.thumbnail = thumbnail, !.hls_processed = hls_processed]

\* regenerate_thumbnail_job (kind "job") and VideoAdmin._regenerate_single_thumbnail
\* (kind "admin", no placeholder): the old file is deleted first.
\* file: a thumbnail file is on disk afterwards; saved: a full save was accepted.
regenerate_thumbnail_job(kind, thumbnail, on_disk, e, denv, temp) ==
    LET g == generate_video_thumbnail_for_instance(e, temp)
        none == [success |-> FALSE, stored |-> FALSE, saved |-> FALSE]
        dflt == IF kind = "job" /\ ~g.success THEN create_default_thumbnail(denv) ELSE none
    IN  [success |-> g.success \/ dflt.success,
         file |-> (IF thumbnail THEN FALSE ELSE on_disk) \/ g.stored \/ dflt.stored,
         saved |-> g.saved \/ dflt.saved,
         temp |-> g.temp]

\* ----------------------------------------------------- get_hls_resolutions
\* The names get_hls_resolutions can meet in <hlsRoot>/<id>/: the
\* directories of the profiles, written by the transcoder, and an entry
\* that is not one of them.
EntryNames == {get_resolution_configs[k].name : k \in DOMAIN get_resolution_configs} \cup {"master"}

\* The characters of a directory name or of a bitrate (Python indexes the str).
Chars(name) ==
    CASE name = "300k" -> <<"3", "0", "0", "k">>
      [] name = "800k" -> <<"8", "0", "0", "k">>
      [] name = "1000k" -> <<"1", "0", "0", "0", "k">>
      [] name = "1200k" -> <<"1", "2", "0", "0", "k">>
      [] name = "2500k" -> <<"2", "5", "0", "0", "k">>
      [] name = "5000k" -> <<"5", "0", "0", "0", "k">>
      [] name = "120p" -> <<"1", "2", "0", "p">>
      [] name = "360p" -> <<"3", "6", "0", "p">>
      [] name = "480p" -> <<"4", "8", "0", "p">>
      [] name = "720p" -> <<"7", "2", "0", "p">>
      [] name = "1080p" -> <<"1", "0", "8", "0", "p">>
      [] name = "master" -> <<"m", "a", "s", "t", "e", "r">>

endswith_p(name) == Chars(name)[Len(Chars(name))] = "p"

Digit(c) ==
    CASE c = "0" -> 0 [] c = "1" -> 1 [] c = "2" -> 2 [] c = "3" -> 3 [] c = "4" -> 4
      [] c = "5" -> 5 [] c = "6" -> 6 [] c = "7" -> 7 [] c = "8" -> 8 [] c = "9" -> 9
      [] OTHER -> -1

\* int() of a string of digits read from the left; -1: ValueError.
RECURSIVE parse_int(_, _)
parse_int(cs, acc) ==
    IF cs = <<>> THEN acc
    ELSE IF Digit(Head(cs)) < 0 THEN -1
    ELSE parse_int(Tail(cs), acc * 10 + Digit(Head(cs)))

\* key=lambda x: int(x[:-1])
sort_key(name) ==
    LET c == Chars(name)
    IN  IF Len(c) <= 1 THEN -1 ELSE parse_int(SubSeq(c, 1, Len(c) - 1), 0)

\* sorted(resolutions, key=...): a stable sort.
RECURSIVE insert_by_key(_, _)
insert_by_key(sorted, x) ==
    IF sorted = <<>> THEN <<x>>
    ELSE IF sort_key(x) < sort_key(Head(sorted)) THEN <<x>> \o sorted
    ELSE <<Head(sorted)>> \o insert_by_key(Tail(sorted), x)

RECURSIVE sorted_by_key(_)
sorted_by_key(names) ==
    IF names = <<>> THEN <<>>
    ELSE insert_by_key(sorted_by_key(SubSeq(names, 1, Len(names) - 1)), names[Len(names)])

\* scan_resolution_directories over os.listdir in the order it came.
RECURSIVE scan_resolution_directories(_)
scan_resolution_directories(listing) ==
    IF listing = <<>> THEN <<>>
    ELSE LET item == Head(listing)
             rest == scan_resolution_directories(Tail(listing))
         IN  IF item.isdir /\ endswith_p(item.name) /\ item.manifest
             THEN <<item.name>> \o rest
             ELSE rest

check_hls_prerequisites(inst) == inst.hls_processed /\ inst.hls_path

\* Variant that returns the directories in the order of os.listdir.
get_hls_resolutions_unsorted(inst, listing) ==
    IF ~check_hls_prerequisites(inst) THEN <<>>
    ELSE scan_resolution_directories(listing)

\* get_hls_resolutions.  inst.hls_path: the field is not empty; listing:
\* os.listdir of <hlsRoot>/<id>/, empty when the directory does not exist.
get_hls_resolutions(inst, listing) ==
    IF ~check_hls_prerequisites(inst) THEN <<>>
    ELSE sorted_by_key(scan_resolution_directories(listing))

\* ---------------------------------------------------- build_ffmpeg_command
\* settings.MEDIA_ROOT and the path the storage gave the source file.
MEDIA_ROOT == "/srv/media"

\* Names the storage may have given an uploaded file.
VideoFileNames ==
    {"a.mp4", "clip.mov", "film_1.mp4", "film_2.mp4", "trailer.avi", "my video.mp4"}

video_file_path(name) == MEDIA_ROOT \o "/videos/" \o name

\* os.path.join
path_join(a, b) == a \o "/" \o b

get_basic_ffmpeg_args(video_path) ==
    <<"ffmpeg", "-i", video_path, "-c:v", "libx264", "-c:a", "aac">>

get_audio_args == <<"-strict", "experimental", "-ac", "2", "-b:a", "128k", "-ar", "44100">>

\* Variant of the video arguments whose buffer size is the bitrate itself.
get_video_args_single_bufsize(resolution) ==
    <<"-vf", "scale=" \o ToString(resolution.width) \o ":" \o ToString(resolution.height),
      "-b:v", resolution.bitrate, "-maxrate", resolution.bitrate,
      "-bufsize", resolution.bitrate>>

\* str(int(bitrate[:-1]) * 2) + 'k' for the buffer size
get_video_args(resolution) ==
    LET c == Chars(resolution.bitrate)
    IN  <<"-vf", "scale=" \o ToString(resolution.width) \o ":" \o ToString(resolution.height),
          "-b:v", resolution.bitrate, "-maxrate", resolution.bitrate,
          "-bufsize", ToString(parse_int(SubSeq(c, 1, Len(c) - 1), 0) * 2) \o "k">>

get_hls_args(res_dir, output_path) ==
    <<"-hls_time", "10", "-hls_list_size", "0",
      "-hls_segment_filename", path_join(res_dir, "%03d.ts"),
      "-f", "hls", output_path, "-y">>

build_ffmpeg_command(video_path, resolution, output_path, res_dir) ==
    get_basic_ffmpeg_args(video_path) \o get_audio_args \o get_video_args(resolution)
        \o get_hls_args(res_dir, output_path)

\* The arguments convert_single_resolution passes for a profile of asset id.
encoder_command(video_path, id, resolution) ==
    LET hls_dir == path_join(path_join(MEDIA_ROOT, "hls"), ToString(id))
        res_dir == path_join(hls_dir, resolution.name)
        output_path == path_join(res_dir, "index.m3u8")
    IN  build_ffmpeg_command(video_path, resolution, output_path, res_dir)

\* settings.MEDIA_URL, as the tests expect it
MEDIA_URL == "/media/"

\* The return value None.
None == <<>>

\* resolution in get_hls_resolutions(video_instance)
check_resolution_availability(inst, listing, resolution) ==
    LET available == get_hls_resolutions(inst, listing)
    IN  \E k \in DOMAIN available : available[k] = resolution

\* The f-string of the URL, piece by piece.
build_hls_playlist_url(id, resolution) ==
    <<MEDIA_URL, "hls/", id, "/", resolution, "/index.m3u8">>

\* Variant that builds the URL without asking what is available.
get_hls_playlist_url_unchecked(inst, id, listing, resolution) ==
    build_hls_playlist_url(id, resolution)

get_hls_playlist_url(inst, id, listing, resolution) ==
    IF ~check_resolution_availability(inst, listing, resolution) THEN None
    ELSE build_hls_playlist_url(id, resolution)

\* ------------------------------------------------------ deletion of an asset
\* The filesystem at one deletion: whether storage.delete of the original
\* file, storage.delete of the thumbnail and shutil.rmtree of the HLS
\* directory work ("ok") or raise ("error").
DeleteEnvs == [media : {"ok", "error"}, thumb : {"ok", "error"}, hls : {"ok", "error"}]

\* cleanup_video_file and cleanup_thumbnail_file: set: the field of the
\* instance names a file.  removed: the file was deleted; raised: an
\* exception left the function.
cleanup_field_file(set, outcome) ==
    [removed |-> set /\ outcome = "ok", raised |-> FALSE]

\* Variant of cleanup_hls_files that reports a missing directory as a failure.
cleanup_hls_files_strict(hls_path, on_disk, outcome) ==
    IF ~hls_path THEN [removed |-> FALSE, ret |-> TRUE, raised |-> FALSE]
    ELSE IF on_disk
    THEN [removed |-> outcome = "ok", ret |-> outcome = "ok", raised |-> FALSE]
    ELSE [removed |-> FALSE, ret |-> FALSE, raised |-> FALSE]

\* cleanup_hls_files.  hls_path: the instance has an hls_path; on_disk: the
\* directory it names exists.  ret: the return value.
cleanup_hls_files(hls_path, on_disk, outcome) ==
    IF ~hls_path THEN [removed |-> FALSE, ret |-> TRUE, raised |-> FALSE]
    ELSE IF on_disk
    THEN [removed |-> outcome = "ok", ret |-> outcome = "ok", raised |-> FALSE]
    ELSE [removed |-> FALSE, ret |-> TRUE, raised |-> FALSE]

\* Variant of the delete handler with one try around the three cleanups,
\* whose helpers let their exceptions through.
delete_video_files_one_try(inst, thumb_on_disk, hls_on_disk, fs) ==
    LET v == cleanup_field_file(inst.video_file, fs.media)
        vfail == inst.video_file /\ fs.media = "error"
        t == cleanup_field_file(inst.thumbnail, fs.thumb)
        tfail == inst.thumbnail /\ fs.thumb = "error"
        h == cleanup_hls_files(inst.hls_processed, hls_on_disk, fs.hls)
    IN  [attempted |-> {"video_file"}
                        \cup (IF vfail THEN {} ELSE {"thumbnail"})
                        \cup (IF vfail \/ tfail THEN {} ELSE {"hls_files"}),
         cleanup_results |-> [video_file |-> ~vfail, thumbnail |-> ~vfail /\ ~tfail,
                              hls_files |-> ~vfail /\ ~tfail],
         media_removed |-> v.removed,
         thumb_removed |-> ~vfail /\ t.removed,
         hls_removed |-> ~vfail /\ ~tfail /\ h.removed,
         raised |-> FALSE]

\* delete_video_files, the post_delete receiver.  inst: the deleted
\* instance, whose hls_path is set exactly when its hls_processed is (both
\* are set together by finalize_video_conversion and written by the same
\* saves).  attempted: the cleanups that were called; cleanup_results: the
\* summary that is logged.
delete_video_files(inst, thumb_on_disk, hls_on_disk, fs) ==
    LET v == cleanup_field_file(inst.video_file, fs.media)
        t == cleanup_field_file(inst.thumbnail, fs.thumb)
        h == cleanup_hls_files(inst.hls_processed, hls_on_disk, fs.hls)
    IN  [attempted |-> {"video_file", "thumbnail", "hls_files"},
         cleanup_results |-> [video_file |-> ~v.raised, thumbnail |-> ~t.raised,
                              hls_files |-> ~h.raised],
         media_removed |-> v.removed,
         thumb_removed |-> t.removed,
         hls_removed |-> h.removed,
         raised |-> FALSE]

\* Variant of the outer handler that writes the emergency status and lets
\* the exception go on to the worker.
emergency_status_reraises(persisted, loaded, accepted) ==
    [ret |-> "raised", raised |-> TRUE,
     status |-> IF loaded /\ accepted THEN "failed" ELSE persisted,
     written |-> loaded /\ accepted]

\* The outer handler of process_video_with_thumbnail.
emergency_status(persisted, loaded, accepted) ==
    [ret |-> "False", raised |-> FALSE,
     status |-> IF loaded /\ accepted THEN "failed" ELSE persisted,
     written |-> loaded /\ accepted]

\* Variant of the final status that leaves a job with a failed stage as it is.
final_status_keeps_processing(hls_success, thumbnail_success) ==
    IF hls_success /\ thumbnail_success THEN "completed" ELSE "processing"

\* The status the job ends with.
final_status(hls_success, thumbnail_success) ==
    IF hls_success /\ thumbnail_success THEN "completed" ELSE "failed"

\* ------------------------------------------------------------------ state
VARIABLES
    db,         \* the record store: per id the Video record
    thumbFile,  \* per id: a non-empty thumbnail file is on disk
    queue,      \* the processing jobs of the 'default' queue, oldest first
    nextId,     \* the next primary key
    rq,         \* the request-handling context inside Video.save
    wk,         \* the worker processes
    enq,        \* per id: jobs added by the creating save (history)
    th,         \* a thumbnail upload or regeneration in progress
    hlsFile,    \* per id: some <hlsRoot>/<id>/<profile>/index.m3u8 is on disk
    tempFile,   \* per id: the temporary thumbnail file is on disk
    hlsDir,     \* per id: the directory <hlsRoot>/<id>/ is on disk
    dl,         \* the last deletion of an asset and what its handler did
    vd,         \* a call of comprehensive_video_validator: input and outcome
    hr,         \* a call of get_hls_resolutions: input and outcome
    tp,         \* a call of _process_video_thumbnail: its position and counts
    fc          \* a call of build_ffmpeg_command: input and outcome

vars == <<db, thumbFile, queue, nextId, rq, wk, enq, th, hlsFile, tempFile, hlsDir, dl, vd, hr, tp, fc>>

NoRecord ==
    [exists |-> FALSE, video_file |-> FALSE, title |-> "", category |-> FALSE,
     status |-> "pending", thumbnail |-> FALSE, hls_processed |-> FALSE]

IdleWorker ==
    [pc |-> "idle", id |-> NoVideo, title |-> "", category |-> FALSE, video_file |-> FALSE,
     thumbnail |-> FALSE, hls_processed |-> FALSE,
     thumbnail_success |-> FALSE, hls_success |-> FALSE, idx |-> 0, cnt |-> 0,
     generated |-> FALSE, fallback |-> FALSE, encoded |-> FALSE, converted |-> FALSE,
     valid |-> "none", ret |-> "none", persisted |-> "none",
     started |-> <<>>]

IdleRequest == [pc |-> "idle", id |-> NoVideo, scen |-> "none"]

\* The instance a thumbnail upload or regeneration holds after loading it.
IdleThumbnail ==
    [pc |-> "idle", id |-> NoVideo, status |-> "pending",
     hls_processed |-> FALSE, thumbnail |-> FALSE, ops |-> 0, last |-> "none"]

\* No asset has been deleted, no validator or listing call is under way.
NoDelete == [pc |-> "none", n |-> 0]

NoCall == [pc |-> "none"]

\* The pipeline's part of the state after start-up.
PipelineInit ==
    /\ db = [i \in VideoIds |-> NoRecord]
    /\ thumbFile = [i \in VideoIds |-> FALSE]
    /\ queue = <<>>
    /\ nextId = 1
    /\ rq = IdleRequest
    /\ wk = [w \in Workers |-> IdleWorker]
    /\ enq = [i \in VideoIds |-> 0]
    /\ th = IdleThumbnail
    /\ hlsFile = [i \in VideoIds |-> FALSE]
    /\ tempFile = [i \in VideoIds |-> FALSE]
    /\ hlsDir = [i \in VideoIds |-> FALSE]
    /\ dl = NoDelete

Init ==
    /\ PipelineInit
    /\ vd = NoCall
    /\ hr = NoCall
    /\ tp = NoCall
    /\ fc = NoCall

Depth(other) == Len(queue) + other

AllAccepted(d) == \A i \in DOMAIN d : d[i]

\* What the creating save met, kept for the properties: "over"/"under" is
\* the depth read against the threshold when every validation passed, the
\* queue answered and the record store accepted every save; "other" if not.
\* "down": the queue backend raised (at get_queue / len, or at enqueue).
Scenario(valid, q, depth, accepted) ==
    IF ~(valid /\ accepted) THEN "other"
    ELSE IF q = "unreachable" THEN "down"
    ELSE IF depth > QueueThreshold THEN (IF q = "ok" THEN "over" ELSE "other")
    ELSE IF q = "enqueue_error" THEN "down"
    ELSE "under"

\* ------------------------------------------------------------- Video.save
\* Video.save of a new instance up to and including super().save(), whose
\* post_save signal runs process_video before it returns.
CreateVideo ==
    /\ rq.pc \in {"idle", "done"}
    /\ nextId <= MaxVideos
    /\ \E u \in Uploads, t \in ToolStates, q \in QueueStates, other \in OtherJobs,
          d \in [1..4 -> BOOLEAN] :
        LET id == nextId
            failed_status == IF u.video_file THEN handle_new_video_save(u) ELSE "none"
            created_status == IF failed_status # "none" THEN failed_status ELSE "pending"
            valid == validate_video_for_processing(u.video_file, u.file, t, u.title, u.category)
            s == process_video(created_status, u.video_file, valid, q, Depth(other), d)
        IN  IF ~u.category THEN
                \* category is NOT NULL: the insert raises, no record is stored
                /\ rq' = [pc |-> "done", id |-> NoVideo, scen |-> "insert_error"]
                /\ UNCHANGED <<db, thumbFile, queue, nextId, wk, enq, th, hlsFile, tempFile, hlsDir, dl, vd, hr, tp, fc>>
            ELSE
                /\ db' = [db EXCEPT ![id] =
                            [exists |-> TRUE, video_file |-> u.video_file, title |-> u.title,
                             category |-> u.category, status |-> s.status,
                             thumbnail |-> u.thumbnail, hls_processed |-> FALSE]]
                /\ thumbFile' = [thumbFile EXCEPT ![id] = u.thumbnail]
                /\ queue' = IF s.enq THEN Append(queue, id) ELSE queue
                /\ enq' = [enq EXCEPT ![id] = IF s.enq THEN 1 ELSE 0]
                /\ nextId' = nextId + 1
                /\ rq' = IF ~u.video_file THEN [pc |-> "done", id |-> id, scen |-> "no_file"]
                         ELSE IF failed_status # "none"
                         THEN [pc |-> "done", id |-> id, scen |-> "preval_failed"]
                         ELSE [pc |-> "queue", id |-> id,
                               scen |-> Scenario(valid, q, Depth(other), AllAccepted(d))]
                /\ UNCHANGED <<wk, th, hlsFile, tempFile, hlsDir, dl, vd, hr, tp, fc>>

\* Video.save after super().save(): handle_video_processing_queue, then return.
QueueNewVideo ==
    /\ rq.pc = "queue"
    /\ \E e \in Environments, q \in QueueStates, other \in OtherJobs, w1 \in BOOLEAN, w2 \in BOOLEAN :
        LET id == rq.id
            valid == validate_video_for_processing(db[id].video_file, e.file, e.tools,
                                                   db[id].title, db[id].category)
            r == queue_video_processing(db[id].status, valid, q, Depth(other), w1, w2)
            failed_status == handle_video_processing_queue(FALSE)
            b == Scenario(valid, q, Depth(other), w1 /\ w2)
        IN  /\ (w1 \/ w2) => db[id].exists
            /\ db' = [db EXCEPT ![id].status =
                        IF failed_status # "none" THEN failed_status ELSE r.status]
            /\ queue' = IF r.enq THEN Append(queue, id) ELSE queue
            /\ enq' = [enq EXCEPT ![id] = IF r.enq THEN @ + 1 ELSE @]
            /\ rq' = [rq EXCEPT !.pc = "done",
                                !.scen = IF rq.scen = "down" /\ b = "down" THEN "down_down"
                                         ELSE IF rq.scen \in {"over", "under"}
                                                 /\ b \in {"over", "under"}
                                         THEN (IF rq.scen = "over"
                                               THEN (IF b = "over" THEN "over_over" ELSE "over_under")
                                               ELSE (IF b = "over" THEN "under_over" ELSE "under_under"))
                                         ELSE "other"]
            /\ UNCHANGED <<thumbFile, nextId, wk, th, hlsFile, tempFile, hlsDir, dl, vd, hr, tp, fc>>

\* Variant of Video.save that treats the save of a pending asset like the
\* creating one: pre-validation, then queue_video_processing.
save_existing_requeues(rec, r) ==
    IF rec.video_file /\ rec.status = "pending"
    THEN [validated |-> TRUE, enq |-> r.enq, status |-> r.status]
    ELSE [validated |-> FALSE, enq |-> FALSE, status |-> rec.status]

\* Video.save of an instance that has a primary key, with the post_save
\* receiver: is_new is False, so neither handle_new_video_save nor
\* handle_video_processing_queue runs, and created is False, so the
\* receiver returns at once.  r: what queue_video_processing would answer.
save_existing(rec, r) ==
    [validated |-> FALSE, enq |-> FALSE, status |-> rec.status]

\* An existing asset is loaded and saved again (an edit in the admin).
ResaveVideo ==
    /\ rq.pc = "done"
    /\ rq.id \in VideoIds
    /\ db[rq.id].exists
    /\ \E e \in Environments, q \in QueueStates, other \in OtherJobs :
        LET id == rq.id
            valid == validate_video_for_processing(db[id].video_file, e.file, e.tools,
                                                   db[id].title, db[id].category)
            r == queue_video_processing(db[id].status, valid, q, Depth(other), TRUE, TRUE)
            sv == save_existing(db[id], r)
        IN  /\ db' = [db EXCEPT ![id].status = sv.status]
            /\ queue' = IF sv.enq THEN Append(queue, id) ELSE queue
            /\ enq' = [enq EXCEPT ![id] = IF sv.enq THEN @ + 1 ELSE @]
            /\ rq' = [rq EXCEPT !.scen =
                        IF sv.validated THEN "revalidated"
                        ELSE IF rq.scen = "over_over"
                                /\ Scenario(valid, q, Depth(other), TRUE) = "under"
                        THEN "deferred_resaved"
                        ELSE rq.scen]
            /\ UNCHANGED <<thumbFile, nextId, wk, th, hlsFile, tempFile, hlsDir, dl, vd, hr, tp, fc>>

\* ------------------------------------------- process_video_with_thumbnail
Finished(w, r, p) ==
    [wk[w] EXCEPT !.pc = "done", !.ret = r, !.persisted = p, !.idx = 0, !.cnt = 0,
                  !.thumbnail = FALSE, !.hls_processed = FALSE,
                  !.started = <<>>]

\* Variant of the pickup that creates the record when it is not there
\* (get_or_create) and goes on.
PickJob_recreates(w) ==
    /\ wk[w].pc \in {"idle", "done"}
    /\ queue # <<>>
    /\ \E load \in {"ok", "db_error"} :
        LET id == Head(queue)
        IN  /\ queue' = Tail(queue)
            /\ db' = IF load = "ok" /\ ~db[id].exists
                     THEN [db EXCEPT ![id] = [NoRecord EXCEPT !.exists = TRUE]]
                     ELSE db
            /\ wk' = [wk EXCEPT ![w] =
                        IF load = "ok"
                        THEN [IdleWorker EXCEPT !.pc = "loaded", !.id = id,
                                !.title = db[id].title, !.category = db[id].category,
                                !.video_file = db[id].video_file,
                                !.thumbnail = db[id].thumbnail,
                                !.hls_processed = db[id].hls_processed]
                        ELSE [IdleWorker EXCEPT !.pc = "done", !.id = id, !.ret = "False"]]
            /\ UNCHANGED <<thumbFile, nextId, rq, enq, th, hlsFile, tempFile, hlsDir, dl, vd, hr, tp, fc>>

\* A worker takes the oldest job and loads the record by id.
PickJob(w) ==
    /\ wk[w].pc \in {"idle", "done"}
    /\ queue # <<>>
    /\ \E load \in {"ok", "db_error"} :
        LET id == Head(queue)
        IN  /\ queue' = Tail(queue)
            /\ wk' = [wk EXCEPT ![w] =
                        IF load = "ok" /\ db[id].exists
                        THEN [IdleWorker EXCEPT !.pc = "loaded", !.id = id,
                                !.title = db[id].title, !.category = db[id].category,
                                !.video_file = db[id].video_file,
                                !.thumbnail = db[id].thumbnail,
                                !.hls_processed = db[id].hls_processed]
                        ELSE [IdleWorker EXCEPT !.pc = "done", !.id = id, !.ret = "False"]]
            /\ UNCHANGED <<db, thumbFile, nextId, rq, enq, th, hlsFile, tempFile, hlsDir, dl, vd, hr, tp, fc>>

\* Variant of the step that goes on to the validation when the save of
\* 'processing' was rejected.
SetProcessing_unchecked(w) ==
    /\ wk[w].pc = "loaded"
    /\ \E accepted \in BOOLEAN :
        /\ accepted => db[wk[w].id].exists
        /\ db' = [db EXCEPT ![wk[w].id].status = SaveStatus(@, "processing", accepted)]
        /\ wk' = [wk EXCEPT ![w].pc = "validate"]
        /\ UNCHANGED <<thumbFile, queue, nextId, rq, enq, th, hlsFile, tempFile, hlsDir, dl, vd, hr, tp, fc>>

SetProcessing(w) ==
    /\ wk[w].pc = "loaded"
    /\ \E accepted \in BOOLEAN :
        /\ accepted => db[wk[w].id].exists
        /\ db' = [db EXCEPT ![wk[w].id].status = SaveStatus(@, "processing", accepted)]
        /\ wk' = [wk EXCEPT ![w] = IF accepted THEN [@ EXCEPT !.pc = "validate"]
                                   ELSE Finished(w, "False", "none")]
        /\ UNCHANGED <<thumbFile, queue, nextId, rq, enq, th, hlsFile, tempFile, hlsDir, dl, vd, hr, tp, fc>>

ValidateJob(w) ==
    /\ wk[w].pc = "validate"
    /\ \E e \in Environments, w1 \in BOOLEAN, w2 \in BOOLEAN :
        LET id == wk[w].id
            valid == validate_video_for_processing(wk[w].video_file, e.file, e.tools,
                                                   wk[w].title, wk[w].category)
            h == emergency_status(db[id].status, TRUE, w2)
        IN  /\ (w1 \/ w2) => db[id].exists
            /\ IF valid THEN
                  /\ wk' = [wk EXCEPT ![w].pc = "thumbnail", ![w].valid = "True"]
                  /\ UNCHANGED <<db, thumbFile, queue, nextId, rq, enq, th, hlsFile, tempFile,
                                 hlsDir, dl, vd, hr, tp, fc>>
               ELSE
                  /\ db' = [db EXCEPT ![id].status = IF w1 THEN "failed" ELSE h.status]
                  /\ wk' = [wk EXCEPT ![w] =
                              [Finished(w, IF w1 THEN "False"
                                           ELSE IF h.raised THEN "raised" ELSE h.ret,
                                        IF w1 \/ h.written THEN "failed" ELSE "rejected")
                               EXCEPT !.valid = "False"]]
                  /\ UNCHANGED <<thumbFile, queue, nextId, rq, enq, th, hlsFile, tempFile,
                                 hlsDir, dl, vd, hr, tp, fc>>

ThumbnailStep(w) ==
    /\ wk[w].pc = "thumbnail"
    /\ \E envs \in [1..MaxRetries -> ThumbEnvs], denv \in DefaultEnvs :
        LET id == wk[w].id
            r == IF wk[w].video_file
                 THEN process_video_thumbnail(wk[w].thumbnail, thumbFile[id], envs, denv,
                                              tempFile[id])
                 ELSE [success |-> FALSE, name |-> wk[w].thumbnail, file |-> thumbFile[id],
                       saved |-> FALSE, attempts |-> 0, default |-> FALSE,
                       temp |-> tempFile[id]]
        IN  /\ thumbFile' = [thumbFile EXCEPT ![id] = r.file]
            /\ tempFile' = [tempFile EXCEPT ![id] = r.temp]
            /\ db' = IF r.saved
                     THEN [db EXCEPT ![id] = FullSave(@, wk[w], r.name, wk[w].hls_processed)]
                     ELSE db
            /\ wk' = [wk EXCEPT ![w].thumbnail = r.name,
                                ![w].thumbnail_success = r.success,
                                ![w].generated = r.attempts > 0 \/ r.default,
                                ![w].fallback = r.default,
                                ![w].pc = IF hls_gate(r.success, r.name) THEN "hls" ELSE "final"]
            /\ UNCHANGED <<queue, nextId, rq, enq, th, hlsFile, hlsDir, dl, vd, hr, tp, fc>>

HlsPrepare(w) ==
    /\ wk[w].pc = "hls"
    /\ \E f \in FileStates, mkdir_ok \in BOOLEAN :
        LET p == prepare_video_conversion(wk[w].video_file, f, mkdir_ok)
        IN  /\ wk' = [wk EXCEPT ![w] = IF p = "ok"
                                       THEN [@ EXCEPT !.pc = "convert", !.idx = 1, !.cnt = 0]
                                       ELSE [@ EXCEPT !.pc = "final", !.hls_success = FALSE]]
            /\ hlsDir' = [hlsDir EXCEPT ![wk[w].id] = @ \/ (p = "ok")]
            /\ UNCHANGED <<db, thumbFile, queue, nextId, rq, enq, th, hlsFile, tempFile, dl, vd, hr, tp, fc>>

\* Variant of the pass that stays at a profile whose encoder failed and
\* runs it again.
ConvertResolution_retries(w) ==
    /\ wk[w].pc = "convert"
    /\ \E o \in EncoderOutcomes :
        LET c == convert_single_resolution(o)
            n == IF c = "True" THEN wk[w].cnt + 1 ELSE wk[w].cnt
            resolution == get_resolution_configs[wk[w].idx]
            retry == c = "False" /\ resolution.name \notin {wk[w].started[k] : k \in DOMAIN wk[w].started}
        IN  /\ hlsFile' = [hlsFile EXCEPT ![wk[w].id] = @ \/ (o = "ok")]
            /\ wk' = [wk EXCEPT ![w] =
                        IF c = "raised"
                        THEN [@ EXCEPT !.pc = "final", !.hls_success = FALSE,
                                       !.converted = wk[w].cnt > 0, !.idx = 0, !.cnt = 0,
                                       !.started = <<>>]
                        ELSE [@ EXCEPT !.encoded = TRUE, !.cnt = n,
                                       !.idx = IF retry THEN @ ELSE @ + 1,
                                       !.started = Append(@, resolution.name),
                                       !.pc = IF wk[w].idx = Len(get_resolution_configs) /\ ~retry
                                              THEN "hls_finalize" ELSE "convert"]]
            /\ UNCHANGED <<db, thumbFile, queue, nextId, rq, enq, th, tempFile, hlsDir, dl, vd, hr, tp, fc>>

\* One pass of the loop of process_all_resolutions.  started: the profiles
\* whose encoder this job has started.
ConvertResolution(w) ==
    /\ wk[w].pc = "convert"
    /\ \E o \in EncoderOutcomes :
        LET c == convert_single_resolution(o)
            n == IF c = "True" THEN wk[w].cnt + 1 ELSE wk[w].cnt
            resolution == get_resolution_configs[wk[w].idx]
        IN  /\ hlsFile' = [hlsFile EXCEPT ![wk[w].id] = @ \/ (o = "ok")]
            /\ wk' = [wk EXCEPT ![w] =
                        IF c = "raised"
                        THEN [@ EXCEPT !.pc = "final", !.hls_success = FALSE,
                                       !.converted = wk[w].cnt > 0, !.idx = 0, !.cnt = 0,
                                       !.started = <<>>]
                        ELSE [@ EXCEPT !.encoded = TRUE, !.cnt = n, !.idx = @ + 1,
                                       !.started = Append(@, resolution.name),
                                       !.pc = IF wk[w].idx = Len(get_resolution_configs)
                                              THEN "hls_finalize" ELSE "convert"]]
            /\ UNCHANGED <<db, thumbFile, queue, nextId, rq, enq, th, tempFile, hlsDir, dl, vd, hr, tp, fc>>

HlsFinalize(w) ==
    /\ wk[w].pc = "hls_finalize"
    /\ \E accepted \in BOOLEAN :
        LET id == wk[w].id
            fin == finalize_video_conversion(wk[w].cnt, accepted)
        IN  /\ db' = IF fin = "True"
                     THEN [db EXCEPT ![id] = FullSave(@, wk[w], wk[w].thumbnail, TRUE)]
                     ELSE db
            /\ wk' = [wk EXCEPT ![w].pc = "final",
                                ![w].hls_processed = IF wk[w].cnt > 0 THEN TRUE ELSE @,
                                ![w].hls_success = (fin = "True"),
                                ![w].converted = wk[w].cnt > 0,
                                ![w].idx = 0, ![w].cnt = 0,
                                ![w].started = <<>>]
            /\ UNCHANGED <<thumbFile, queue, nextId, rq, enq, th, hlsFile, tempFile, hlsDir, dl, vd, hr, tp, fc>>

FinalizeJob(w) ==
    /\ wk[w].pc = "final"
    /\ \E accepted \in BOOLEAN :
        LET id == wk[w].id
            st == final_status(wk[w].hls_success, wk[w].thumbnail_success)
        IN  /\ accepted => db[id].exists
            /\ db' = [db EXCEPT ![id].status = SaveStatus(@, st, accepted)]
            /\ wk' = [wk EXCEPT ![w] =
                        Finished(w, IF accepted /\ st = "completed" THEN "True" ELSE "False",
                                 IF accepted THEN st ELSE "rejected")]
            /\ UNCHANGED <<thumbFile, queue, nextId, rq, enq, th, hlsFile, tempFile, hlsDir, dl, vd, hr, tp, fc>>

\* ------------------------------------- thumbnail upload and regeneration
\* upload_thumbnail_view, regenerate_thumbnail_job and the admin action load
\* the record first.
LoadForThumbnail ==
    /\ th.pc = "idle"
    /\ th.ops < MaxThumbnailOps
    /\ \E i \in VideoIds :
        /\ db[i].exists
        /\ th' = [pc |-> "loaded", id |-> i, status |-> db[i].status,
                   hls_processed |-> db[i].hls_processed, thumbnail |-> db[i].thumbnail,
                   ops |-> th.ops + 1, last |-> th.last]
    /\ UNCHANGED <<db, thumbFile, queue, nextId, rq, wk, enq, hlsFile, tempFile, hlsDir, dl, vd, hr, tp, fc>>

\* upload_thumbnail_view: delete the old file, set the new one, video.save().
UploadThumbnail ==
    /\ th.pc = "loaded"
    /\ \E accepted \in BOOLEAN :
        /\ thumbFile' = [thumbFile EXCEPT ![th.id] = TRUE]
        /\ db' = IF accepted
                 THEN [db EXCEPT ![th.id] = InstanceSave(@, th.status, TRUE, th.hls_processed)]
                 ELSE db
    /\ th' = [IdleThumbnail EXCEPT !.ops = th.ops, !.last = "upload"]
    /\ UNCHANGED <<queue, nextId, rq, wk, enq, hlsFile, tempFile, hlsDir, dl, vd, hr, tp, fc>>

RegenerateThumbnail ==
    /\ th.pc = "loaded"
    /\ db[th.id].video_file
    /\ \E kind \in {"job", "admin"}, e \in ThumbEnvs, denv \in DefaultEnvs :
        LET r == regenerate_thumbnail_job(kind, th.thumbnail, thumbFile[th.id], e, denv,
                                          tempFile[th.id])
        IN  /\ thumbFile' = [thumbFile EXCEPT ![th.id] = r.file]
            /\ tempFile' = [tempFile EXCEPT ![th.id] = r.temp]
            /\ db' = IF r.saved
                     THEN [db EXCEPT ![th.id] =
                             InstanceSave(@, th.status, TRUE, th.hls_processed)]
                     ELSE db
    /\ th' = [IdleThumbnail EXCEPT !.ops = th.ops, !.last = "regenerate"]
    /\ UNCHANGED <<queue, nextId, rq, wk, enq, hlsFile, hlsDir, dl, vd, hr, tp, fc>>

Next ==
    \/ CreateVideo
    \/ QueueNewVideo
    \/ \E w \in Workers : PickJob(w)
    \/ \E w \in Workers : SetProcessing(w)
    \/ \E w \in Workers : ValidateJob(w)
    \/ \E w \in Workers : ThumbnailStep(w)
    \/ \E w \in Workers : HlsPrepare(w)
    \/ \E w \in Workers : ConvertResolution(w)
    \/ \E w \in Workers : HlsFinalize(w)
    \/ \E w \in Workers : FinalizeJob(w)

Spec == Init /\ [][Next]_vars

\* Workers run a picked job to its end (every external call has a timeout)
\* and keep polling the queue; the request handler finishes Video.save.
Fairness ==
    /\ WF_vars(QueueNewVideo)
    /\ \A w \in Workers :
        /\ WF_vars(PickJob(w))
        /\ WF_vars(SetProcessing(w) \/ ValidateJob(w) \/ ThumbnailStep(w) \/ HlsPrepare(w)
                    \/ ConvertResolution(w) \/ HlsFinalize(w) \/ FinalizeJob(w))

FairSpec == Spec /\ Fairness

\* The pipeline served by one worker process, together with the thumbnail
\* uploads and regenerations of the request handlers and the admin.
FirstWorker == CHOOSE w \in Workers : \A v \in Workers : w <= v

ThumbnailNext ==
    \/ CreateVideo
    \/ QueueNewVideo
    \/ PickJob(FirstWorker)
    \/ SetProcessing(FirstWorker)
    \/ ValidateJob(FirstWorker)
    \/ ThumbnailStep(FirstWorker)
    \/ HlsPrepare(FirstWorker)
    \/ ConvertResolution(FirstWorker)
    \/ HlsFinalize(FirstWorker)
    \/ FinalizeJob(FirstWorker)
    \/ LoadForThumbnail
    \/ UploadThumbnail
    \/ RegenerateThumbnail

ThumbnailSpec == Init /\ [][ThumbnailNext]_vars

\* ------------------------------------------------ read requests of the API
\* VideoListSerializer.get_thumbnail_url and VideoDetailSerializer.get_thumbnail_url
\* for one asset.  on_disk: the thumbnail file exists; source: the source
\* file exists.  Exceptions are swallowed.
get_thumbnail_url(rec, on_disk, source, valid, q, depth, w1, w2) ==
    IF rec.thumbnail /\ ~on_disk /\ rec.video_file /\ source
    THEN LET r == queue_video_processing(rec.status, valid, q, depth, w1, w2)
         IN  [url |-> FALSE, enq |-> r.enq, status |-> r.status]
    ELSE [url |-> rec.thumbnail /\ on_disk, enq |-> FALSE, status |-> rec.status]

\* A GET of the video list or of one video serializes an asset.
ReadVideo ==
    /\ Len(queue) < MaxQueuedJobs
    /\ \E i \in VideoIds :
        /\ db[i].exists
        /\ \E e \in IF db[i].thumbnail /\ ~thumbFile[i] THEN Environments
                     ELSE {[file |-> GoodFile, tools |-> [ffmpeg |-> "ok", ffprobe |-> "ok"]]},
              q \in IF db[i].thumbnail /\ ~thumbFile[i] THEN QueueStates ELSE {"ok"},
              other \in IF db[i].thumbnail /\ ~thumbFile[i] THEN OtherJobs ELSE {0},
              w1 \in BOOLEAN, w2 \in BOOLEAN :
           LET valid == validate_video_for_processing(db[i].video_file, e.file, e.tools,
                                                      db[i].title, db[i].category)
               r == get_thumbnail_url(db[i], thumbFile[i], e.file.exists, valid, q,
                                      Depth(other), w1, w2)
           IN  /\ db' = [db EXCEPT ![i].status = r.status]
               /\ queue' = IF r.enq THEN Append(queue, i) ELSE queue
    /\ UNCHANGED <<thumbFile, nextId, rq, wk, enq, th, hlsFile, tempFile, hlsDir, dl, vd, hr, tp, fc>>

\* The request handlers on their own: creation, regeneration of
\* thumbnails and read requests, while no worker takes a job.
ApiNext ==
    \/ CreateVideo
    \/ QueueNewVideo
    \/ LoadForThumbnail
    \/ RegenerateThumbnail
    \/ ReadVideo

ApiSpec == Init /\ [][ApiNext]_vars

\* The pipeline served by one worker process that runs each picked job to
\* its end, as in FairSpec.
OneWorkerNext ==
    \/ CreateVideo
    \/ QueueNewVideo
    \/ PickJob(FirstWorker)
    \/ SetProcessing(FirstWorker)
    \/ ValidateJob(FirstWorker)
    \/ ThumbnailStep(FirstWorker)
    \/ HlsPrepare(FirstWorker)
    \/ ConvertResolution(FirstWorker)
    \/ HlsFinalize(FirstWorker)
    \/ FinalizeJob(FirstWorker)

OneWorkerFairSpec ==
    /\ Init
    /\ [][OneWorkerNext]_vars
    /\ WF_vars(QueueNewVideo)
    /\ WF_vars(PickJob(FirstWorker))
    /\ WF_vars(SetProcessing(FirstWorker) \/ ValidateJob(FirstWorker)
                \/ ThumbnailStep(FirstWorker) \/ HlsPrepare(FirstWorker)
                \/ ConvertResolution(FirstWorker) \/ HlsFinalize(FirstWorker)
                \/ FinalizeJob(FirstWorker))

\* The pipeline served by one worker process, with later saves of the
\* assets.
ResaveNext ==
    \/ CreateVideo
    \/ QueueNewVideo
    \/ ResaveVideo
    \/ PickJob(FirstWorker)
    \/ SetProcessing(FirstWorker)
    \/ ValidateJob(FirstWorker)
    \/ ThumbnailStep(FirstWorker)
    \/ HlsPrepare(FirstWorker)
    \/ ConvertResolution(FirstWorker)
    \/ HlsFinalize(FirstWorker)
    \/ FinalizeJob(FirstWorker)

ResaveSpec == Init /\ [][ResaveNext]_vars

\* The worker and the request handler go on as in FairSpec.
ResaveFairSpec ==
    /\ ResaveSpec
    /\ WF_vars(QueueNewVideo)
    /\ WF_vars(PickJob(FirstWorker))
    /\ WF_vars(SetProcessing(FirstWorker) \/ ValidateJob(FirstWorker)
                \/ ThumbnailStep(FirstWorker) \/ HlsPrepare(FirstWorker)
                \/ ConvertResolution(FirstWorker) \/ HlsFinalize(FirstWorker)
                \/ FinalizeJob(FirstWorker))

\* ----------------------------------------------------------- deletion
\* A request (admin or API) deletes an asset: the row is removed and the
\* post_delete receiver delete_video_files runs on the instance.
DeleteVideo ==
    /\ dl.n < MaxDeletes
    /\ \E i \in VideoIds, fs \in DeleteEnvs :
        /\ db[i].exists
        /\ LET r == delete_video_files(db[i], thumbFile[i], hlsDir[i], fs)
           IN  /\ db' = [db EXCEPT ![i] = NoRecord]
               /\ thumbFile' = [thumbFile EXCEPT ![i] = @ /\ ~r.thumb_removed]
               /\ hlsDir' = [hlsDir EXCEPT ![i] = @ /\ ~r.hls_removed]
               /\ hlsFile' = [hlsFile EXCEPT ![i] = @ /\ ~r.hls_removed]
               /\ dl' = [pc |-> "deleted", n |-> dl.n + 1, id |-> i, status |-> db[i].status, fs |-> fs,
                          had |-> [video_file |-> db[i].video_file,
                                   thumbnail |-> db[i].thumbnail,
                                   hls_path |-> db[i].hls_processed],
                          media_on_disk |-> db[i].video_file /\ ~r.media_removed,
                          attempted |-> r.attempted,
                          cleanup_results |-> r.cleanup_results,
                          raised |-> r.raised,
                          job |-> IF \E w \in Workers :
                                       /\ wk[w].id = i
                                       /\ wk[w].pc \notin {"idle", "done"}
                                  THEN "running"
                                  ELSE IF \E k \in DOMAIN queue : queue[k] = i
                                  THEN "queued" ELSE "none"]
    /\ UNCHANGED <<queue, nextId, rq, wk, enq, th, tempFile, vd, hr, tp, fc>>

\* The pipeline served by one worker process, with deletions.
DeleteNext ==
    \/ CreateVideo
    \/ QueueNewVideo
    \/ PickJob(FirstWorker)
    \/ SetProcessing(FirstWorker)
    \/ ValidateJob(FirstWorker)
    \/ ThumbnailStep(FirstWorker)
    \/ HlsPrepare(FirstWorker)
    \/ ConvertResolution(FirstWorker)
    \/ HlsFinalize(FirstWorker)
    \/ FinalizeJob(FirstWorker)
    \/ DeleteVideo

DeleteSpec == Init /\ [][DeleteNext]_vars

\* ------------------------------------------- the validator on its own
NoResult == ValidatorResult("none", FALSE, NotStarted)

ValidatorInit ==
    /\ PipelineInit
    /\ hr = NoCall
    /\ tp = NoCall
    /\ fc = NoCall
    /\ vd \in {[pc |-> "start", file |-> f, env |-> e, result |-> NoResult] :
                f \in UploadedFiles, e \in ValidatorEnvs}

\* One call of comprehensive_video_validator, from entry to return or raise.
Validate ==
    /\ vd.pc = "start"
    /\ LET r == comprehensive_video_validator(vd.file, vd.env)
       IN  vd' = [vd EXCEPT !.pc = IF r.accepted THEN "returned" ELSE "raised",
                            !.result = r]
    /\ UNCHANGED <<db, thumbFile, queue, nextId, rq, wk, enq, th, hlsFile, tempFile,
                   hlsDir, dl, hr, tp, fc>>

ValidatorSpec == ValidatorInit /\ [][Validate]_vars

\* ------------------------------------- get_hls_resolutions on its own
\* Orders in which os.listdir may return the entries.
ListOrders ==
    {<<"120p", "360p", "480p", "720p", "1080p", "master">>,
     <<"master", "1080p", "720p", "480p", "360p", "120p">>,
     <<"1080p", "120p", "360p", "master", "480p", "720p">>}

\* What a name is on disk: not there, a plain file, a directory, or a
\* directory that holds index.m3u8.
EntryKinds == {"absent", "file", "dir", "manifest"}

RECURSIVE Listing(_, _)
Listing(order, kind) ==
    IF order = <<>> THEN <<>>
    ELSE LET n == Head(order)
             rest == Listing(Tail(order), kind)
         IN  IF kind[n] = "absent" THEN rest
             ELSE <<[name |-> n, isdir |-> kind[n] # "file",
                     manifest |-> kind[n] = "manifest"]>> \o rest

\* The instance and the directory <hlsRoot>/<id>/ (the directory hls_path
\* names when it is set) a call finds; exists: the directory is there.
ResolutionsInit ==
    /\ PipelineInit
    /\ vd = NoCall
    /\ tp = NoCall
    /\ fc = NoCall
    /\ hr \in {[pc |-> "start", inst |-> [hls_processed |-> p, hls_path |-> h],
                 exists |-> TRUE, listing |-> Listing(o, k), result |-> <<>>] :
                p \in BOOLEAN, h \in BOOLEAN, o \in ListOrders,
                k \in [EntryNames -> EntryKinds]}
              \cup {[pc |-> "start", inst |-> [hls_processed |-> p, hls_path |-> h],
                      exists |-> FALSE, listing |-> <<>>, result |-> <<>>] :
                     p \in BOOLEAN, h \in BOOLEAN}

ListResolutions ==
    /\ hr.pc = "start"
    /\ hr' = [hr EXCEPT !.pc = "returned",
                        !.result = get_hls_resolutions(hr.inst, hr.listing)]
    /\ UNCHANGED <<db, thumbFile, queue, nextId, rq, wk, enq, th, hlsFile, tempFile,
                   hlsDir, dl, vd, tp, fc>>

\* Primary keys and resolutions a caller may ask a playlist for.
AssetIds == {1, 27}

RequestedResolutions == EntryNames \cup {"240p"}

\* One call of get_hls_playlist_url.
PlaylistUrl ==
    /\ hr.pc = "start"
    /\ \E id \in AssetIds, resolution \in RequestedResolutions :
        hr' = [pc |-> "url", inst |-> hr.inst, exists |-> hr.exists, listing |-> hr.listing,
               id |-> id, resolution |-> resolution,
               url |-> get_hls_playlist_url(hr.inst, id, hr.listing, resolution)]
    /\ UNCHANGED <<db, thumbFile, queue, nextId, rq, wk, enq, th, hlsFile, tempFile,
                   hlsDir, dl, vd, tp, fc>>

\* One call of cleanup_hls_files; rmtree: what shutil.rmtree would do.
CleanupHls ==
    /\ hr.pc = "start"
    /\ \E rmtree \in {"ok", "error"} :
        LET r == cleanup_hls_files(hr.inst.hls_path, hr.exists, rmtree)
        IN  hr' = [pc |-> "cleaned", inst |-> hr.inst, exists |-> hr.exists,
                   listing |-> hr.listing, rmtree |-> rmtree, ret |-> r.ret,
                   exists_after |-> hr.exists /\ ~r.removed,
                   listing_after |-> IF r.removed THEN <<>> ELSE hr.listing]
    /\ UNCHANGED <<db, thumbFile, queue, nextId, rq, wk, enq, th, hlsFile, tempFile,
                   hlsDir, dl, vd, tp, fc>>

ResolutionsNext ==
    \/ ListResolutions
    \/ PlaylistUrl
    \/ CleanupHls

ResolutionsSpec == ResolutionsInit /\ [][ResolutionsNext]_vars

\* ------------------------------------ build_ffmpeg_command on its own
CommandInit ==
    /\ PipelineInit
    /\ vd = NoCall
    /\ hr = NoCall
    /\ tp = NoCall
    /\ fc \in {[pc |-> "start", id |-> i, video_path |-> video_file_path(n),
                 resolution |-> get_resolution_configs[k], command |-> <<>>] :
                i \in AssetIds, n \in VideoFileNames, k \in DOMAIN get_resolution_configs}

\* The command of one pass of process_all_resolutions.
BuildCommand ==
    /\ fc.pc = "start"
    /\ fc' = [fc EXCEPT !.pc = "built",
                        !.command = encoder_command(fc.video_path, fc.id, fc.resolution)]
    /\ UNCHANGED <<db, thumbFile, queue, nextId, rq, wk, enq, th, hlsFile, tempFile,
                   hlsDir, dl, vd, hr, tp>>

CommandSpec == CommandInit /\ [][BuildCommand]_vars

\* ------------------------- the loops of _process_video_thumbnail, stepwise
timestamps == <<"00:00:10", "00:00:05", "00:00:02", "00:00:01">>

\* What one run of the frame extractor leaves, as the check after it sees
\* it: a non-empty image, an empty file, a failed run or a run cut off at
\* its timeout of 30 seconds.
ExtractOutcomes == {"image", "empty", "failed", "timeout"}

\* The source file as generate_video_thumbnail_for_instance finds it.
SourceStates == {"ok", "no_file", "missing", "unreadable", "raises"}

\* What the storing of an extracted image comes to.
StoreOutcomes == {"saved", "read_empty", "rejected"}

ThumbnailLoopInit ==
    /\ PipelineInit
    /\ vd = NoCall
    /\ hr = NoCall
    /\ fc = NoCall
    /\ tp \in {[pc |-> "start", name |-> n, on_disk |-> f, attempt |-> 0, started |-> 0,
                 failed |-> 0, sleeps |-> 0, defaults |-> 0, ts |-> 0,
                 tried |-> <<>>, seen |-> <<>>, ret |-> "none"] :
                n \in BOOLEAN, f \in BOOLEAN}

\* Variant of the step after a failed attempt that sleeps after the last
\* attempt as well and goes round again.
after_failed_attempt_keeps_retrying(attempt) == "sleep"

\* "if attempt < max_retries: time.sleep(2)", then the next pass of the
\* for-loop or, after the last one, the placeholder.
after_failed_attempt(attempt) == IF attempt < MaxRetries THEN "sleep" ELSE "default"

\* The instance after an attempt that failed.
FailedAttempt(t) ==
    [t EXCEPT !.failed = @ + 1, !.pc = after_failed_attempt(t.attempt)]

\* The check for a thumbnail that is already there.
CheckExisting ==
    /\ tp.pc = "start"
    /\ tp' = IF tp.name /\ tp.on_disk
             THEN [tp EXCEPT !.pc = "returned", !.ret = "True"]
             ELSE [tp EXCEPT !.pc = "attempt", !.attempt = 1]
    /\ UNCHANGED <<db, thumbFile, queue, nextId, rq, wk, enq, th, hlsFile, tempFile,
                   hlsDir, dl, vd, hr, fc>>

\* A pass of the for-loop calls generate_video_thumbnail_for_instance, which
\* looks at the source file first.
StartAttempt ==
    /\ tp.pc = "attempt"
    /\ \E source \in SourceStates :
        LET t == [tp EXCEPT !.started = @ + 1, !.tried = <<>>, !.seen = <<>>, !.ts = 0]
        IN  tp' = IF source = "ok" THEN [t EXCEPT !.pc = "extract", !.ts = 1]
                  ELSE FailedAttempt(t)
    /\ UNCHANGED <<db, thumbFile, queue, nextId, rq, wk, enq, th, hlsFile, tempFile,
                   hlsDir, dl, vd, hr, fc>>

\* One pass of the loop over the timestamps.
ExtractFrame ==
    /\ tp.pc = "extract"
    /\ \E o \in ExtractOutcomes :
        LET t == [tp EXCEPT !.tried = Append(@, timestamps[tp.ts]), !.seen = Append(@, o)]
        IN  tp' = IF o = "image" THEN [t EXCEPT !.pc = "store"]
                  ELSE IF tp.ts < Len(timestamps) THEN [t EXCEPT !.ts = @ + 1]
                  ELSE FailedAttempt(t)
    /\ UNCHANGED <<db, thumbFile, queue, nextId, rq, wk, enq, th, hlsFile, tempFile,
                   hlsDir, dl, vd, hr, fc>>

\* The image is read and saved on the instance.
StoreFrame ==
    /\ tp.pc = "store"
    /\ \E o \in StoreOutcomes :
        tp' = IF o = "saved" THEN [tp EXCEPT !.pc = "returned", !.ret = "True"]
              ELSE FailedAttempt(tp)
    /\ UNCHANGED <<db, thumbFile, queue, nextId, rq, wk, enq, th, hlsFile, tempFile,
                   hlsDir, dl, vd, hr, fc>>

\* time.sleep(2), then the next pass.
BackoffSleep ==
    /\ tp.pc = "sleep"
    /\ tp' = [tp EXCEPT !.sleeps = @ + 1, !.attempt = @ + 1, !.pc = "attempt"]
    /\ UNCHANGED <<db, thumbFile, queue, nextId, rq, wk, enq, th, hlsFile, tempFile,
                   hlsDir, dl, vd, hr, fc>>

\* create_default_thumbnail after the loop.
DefaultThumbnail ==
    /\ tp.pc = "default"
    /\ \E denv \in DefaultEnvs :
        tp' = [tp EXCEPT !.defaults = @ + 1, !.pc = "returned",
                         !.ret = IF create_default_thumbnail(denv).success
                                 THEN "True" ELSE "False"]
    /\ UNCHANGED <<db, thumbFile, queue, nextId, rq, wk, enq, th, hlsFile, tempFile,
                   hlsDir, dl, vd, hr, fc>>

ThumbnailLoopNext ==
    \/ CheckExisting
    \/ StartAttempt
    \/ ExtractFrame
    \/ StoreFrame
    \/ BackoffSleep
    \/ DefaultThumbnail

\* Every step is a bounded wait of the job's own thread (the extractor is
\* run with a timeout), so the thread goes on.
ThumbnailLoopSpec ==
    ThumbnailLoopInit /\ [][ThumbnailLoopNext]_vars /\ WF_vars(ThumbnailLoopNext)

\* ------------------------------------------------------------- properties
\* jobs of asset i still waiting in the queue
Waiting(i) == Cardinality({k \in DOMAIN queue : queue[k] = i})

\* C1: a job that went through the stages and whose final save was accepted
\* persists completed if and only if its thumbnail step succeeded and at
\* least one resolution was converted; otherwise it persists failed.
C1_CompletedIffBothSucceeded ==
    [][\A w \in Workers :
        (wk[w].pc = "final" /\ wk'[w].pc = "done" /\ wk'[w].persisted # "rejected")
        => db'[wk[w].id].status =
             (IF wk[w].thumbnail_success /\ wk[w].converted THEN "completed" ELSE "failed")]_vars

\* C2: an asset whose pre-validation failed at creation is stored as failed,
\* the creation adds no job for it, and its status stays failed.
C2_PrevalidationFailureNotQueued ==
    rq.scen = "preval_failed" => (enq[rq.id] = 0 /\ db[rq.id].status = "failed")

AllowedTransition(a, b) ==
    \/ a = b
    \/ <<a, b>> \in {<<"pending", "processing">>, <<"processing", "completed">>,
                      <<"processing", "failed">>, <<"pending", "failed">>}

\* C3: the persisted status of an existing asset moves only along
\* pending -> processing -> completed | failed, or pending -> failed.
C3_StatusOrder ==
    [][\A i \in VideoIds : db[i].exists => AllowedTransition(db[i].status, db'[i].status)]_vars

C5_TranscodeGatedOnThumbnail ==
    \A w \in Workers : wk[w].encoded => wk[w].thumbnail_success

\* C6: a creation that reads a depth above the threshold at both of its reads
\* (validation passing, queue and record store answering) adds no job and
\* leaves the status pending; one that reads a depth of at most the threshold
\* first adds a job.
C6_Backpressure ==
    /\ (rq.pc = "done" /\ rq.scen = "over_over")
        => (enq[rq.id] = 0 /\ Waiting(rq.id) = 0 /\ db[rq.id].status = "pending")
    /\ rq.scen \in {"under", "under_over", "under_under"} => enq[rq.id] >= 1

C6_Witness == rq.pc = "done" /\ rq.scen = "over_over" /\ db[rq.id].status = "pending"

\* C7: the creation of one asset adds at most one job, and when its first
\* attempt added none, none is added afterwards.
C7_SingleEnqueueAttempt ==
    [][\A i \in VideoIds :
        /\ enq'[i] <= 1
        /\ (rq.pc = "queue" /\ rq.id = i /\ enq[i] = 0) => enq'[i] = 0]_vars

\* C8: after the creating save has returned for an asset that passed the
\* validations with the queue reachable and not over the threshold, a job
\* with its id has been added, and while no worker has picked a job of the
\* asset the job waits in the queue and the status is pending.
C8_QueuedAndPending ==
    (rq.pc = "done" /\ rq.scen \in {"under_under", "under_over"})
    => /\ enq[rq.id] >= 1
       /\ (Waiting(rq.id) = enq[rq.id]) => db[rq.id].status = "pending"

C8_Witness ==
    /\ rq.pc = "done" /\ rq.scen = "under_under"
    /\ Waiting(rq.id) = enq[rq.id] /\ enq[rq.id] >= 1 /\ db[rq.id].status = "pending"

\* C9: a job validates only after it has loaded the record and its save of
\* 'processing' was accepted, runs the thumbnail generator and the encoder
\* only after the validation passed, and when the validation fails it
\* returns at once with failed persisted (if the record store accepts it).
C9_ValidateAfterProcessing ==
    [][\A w \in Workers :
        /\ (wk'[w].pc = "validate" /\ wk[w].pc # "validate")
            => (wk[w].pc = "loaded" /\ db'[wk'[w].id].status = "processing")
        /\ (wk'[w].valid # "none" /\ wk[w].valid = "none") => wk[w].pc = "validate"
        /\ (wk'[w].generated \/ wk'[w].encoded) => wk'[w].valid = "True"
        /\ (wk'[w].valid = "False" /\ wk[w].valid = "none")
            => /\ wk'[w].pc = "done" /\ wk'[w].ret = "False"
               /\ wk'[w].persisted \in {"failed", "rejected"}
               /\ wk'[w].persisted = "failed" => db'[wk'[w].id].status = "failed"]_vars

C9_Witness ==
    \E w \in Workers :
        /\ wk[w].pc = "done" /\ wk[w].valid = "False" /\ wk[w].persisted = "failed"
        /\ ~wk[w].generated /\ ~wk[w].encoded

StageFailed(w) ==
    \/ wk[w].valid = "False"
    \/ wk[w].valid = "True" /\ ~(wk[w].thumbnail_success /\ wk[w].hls_success)

\* C10: a job returns True or False and never raises, and when one of its
\* stages failed and the record store accepted its last status save, the
\* status it persisted is failed.
C10_NoExceptionEscapes ==
    \A w \in Workers :
        wk[w].pc = "done"
        => /\ wk[w].ret \in {"True", "False"}
           /\ (StageFailed(w) /\ wk[w].persisted # "rejected") => wk[w].persisted = "failed"

C10_Witness ==
    \E w \in Workers :
        /\ wk[w].pc = "done" /\ wk[w].valid = "True" /\ wk[w].thumbnail_success
        /\ ~wk[w].hls_success /\ wk[w].persisted = "failed" /\ wk[w].ret = "False"

\* C11: when the queue backend raises at both calls the creating save makes
\* (validation passing, record store accepting), the save returns, no job of
\* the asset was added and the persisted status is failed.
C11_QueueUnreachable ==
    (rq.pc = "done" /\ rq.scen = "down_down")
    => (enq[rq.id] = 0 /\ Waiting(rq.id) = 0 /\ db[rq.id].status = "failed")

C11_Witness ==
    rq.pc = "done" /\ rq.scen = "down_down" /\ db[rq.id].status = "failed" /\ enq[rq.id] = 0

\* C12: an asset whose persisted status is completed has a thumbnail file on
\* disk and hls_processed = true.
C12_CompletedHasThumbnailAndHls ==
    \A i \in VideoIds :
        (db[i].exists /\ db[i].status = "completed") => (thumbFile[i] /\ db[i].hls_processed)

\* C13: a record with hls_processed = true has an index.m3u8 in at least one
\* resolution directory under <hlsRoot>/<id>/.
C13_HlsProcessedHasManifest ==
    \A i \in VideoIds : (db[i].exists /\ db[i].hls_processed) => hlsFile[i]

\* C14: when convert_video_to_hls returns after process_all_resolutions, the
\* asset's hls_processed is true if the count of converted profiles is
\* greater than 0 and false if it is 0, also on a later run for the asset.
C14_HlsProcessedFollowsCount ==
    [][\A w \in Workers :
        (wk[w].pc = "hls_finalize" /\ wk'[w].pc = "final")
        => /\ wk[w].cnt \in 0..NumProfiles
           /\ wk'[w].hls_processed = (wk[w].cnt > 0)
           /\ wk'[w].hls_success => db'[wk[w].id].hls_processed]_vars

\* C15: a failure while one profile is converted leaves the loop going: the
\* next profile is attempted and the count of successes is kept.
C15_FailureIsolatedPerProfile ==
    [][\A w \in Workers :
        (wk[w].pc = "convert" /\ wk[w].idx < NumProfiles /\ wk'[w] # wk[w])
        => /\ wk'[w].pc = "convert"
           /\ wk'[w].idx = wk[w].idx + 1
           /\ wk'[w].cnt >= wk[w].cnt]_vars

\* C16: the conversion of one profile counts as successful if and only if
\* the encoder exited with 0 and an index.m3u8 is on disk afterwards.
C16_TrueIffExitZeroAndManifest ==
    [][\A w \in Workers :
        (wk[w].pc = "convert" /\ wk'[w] # wk[w])
        => /\ (wk'[w].cnt = wk[w].cnt + 1) => hlsFile'[wk[w].id]
           /\ (hlsFile'[wk[w].id] /\ ~hlsFile[wk[w].id]) => wk'[w].cnt = wk[w].cnt + 1]_vars

\* a step that writes processing_status of asset i with update_fields
NarrowStatusStep(i) ==
    \/ rq.pc = "queue" /\ rq.id = i /\ rq'.pc = "done"
    \/ \E w \in Workers :
        /\ wk[w].id = i
        /\ wk[w].pc \in {"loaded", "validate", "final"}
        /\ wk'[w].pc # wk[w].pc

\* C17: the persisted processing_status of an asset changes only in steps
\* that write it as a single-field update; no full save of an instance
\* loaded earlier (HLS finalization, thumbnail persistence, thumbnail
\* upload) changes it.
C17_StatusOnlyByNarrowWrites ==
    [][\A i \in VideoIds :
        (db[i].exists /\ db'[i].status # db[i].status) => NarrowStatusStep(i)]_vars

\* C18: the thumbnail step on an asset that has a thumbnail with a non-empty
\* file on disk returns success, calls neither the frame extractor nor the
\* placeholder generator and changes neither the record nor the files; and
\* a step that returned success leaves such a thumbnail, so a second run
\* changes nothing.
C18_ThumbnailStepIdempotent ==
    [][\A w \in Workers :
        (wk[w].pc = "thumbnail" /\ wk'[w].pc # "thumbnail")
        => /\ (wk[w].thumbnail /\ thumbFile[wk[w].id])
              => /\ wk'[w].thumbnail_success /\ ~wk'[w].generated /\ ~wk'[w].fallback
                 /\ wk'[w].thumbnail
                 /\ db' = db /\ thumbFile' = thumbFile /\ tempFile' = tempFile
           /\ wk'[w].thumbnail_success => (wk'[w].thumbnail /\ thumbFile'[wk[w].id])]_vars

C18_Witness ==
    \E w \in Workers :
        /\ wk[w].pc = "hls" /\ wk[w].thumbnail_success /\ ~wk[w].generated
        /\ wk[w].thumbnail /\ thumbFile[wk[w].id]

\* C19 (as stated): the thumbnail step ends with a non-empty thumbnail stored
\* on the asset, through the placeholder when no frame could be extracted.
C19_AlwaysEndsWithThumbnail ==
    [][\A w \in Workers :
        (wk[w].pc = "thumbnail" /\ wk'[w].pc # "thumbnail")
        => (wk'[w].thumbnail /\ thumbFile'[wk[w].id])]_vars

\* C19 (amended): when no frame could be extracted in any attempt the
\* placeholder generator is invoked; the step returns success only with a
\* non-empty thumbnail stored, and returns failure only after the
\* placeholder generator failed too.
C19_FallbackThenThumbnailOrFailure ==
    [][\A w \in Workers :
        (wk[w].pc = "thumbnail" /\ wk'[w].pc # "thumbnail")
        => /\ wk'[w].thumbnail_success => (wk'[w].thumbnail /\ thumbFile'[wk[w].id])
           /\ ~wk'[w].thumbnail_success => (wk'[w].generated /\ wk'[w].fallback)]_vars

C19_Witness ==
    \E w \in Workers :
        /\ wk[w].pc = "hls" /\ wk[w].fallback /\ wk[w].thumbnail_success
        /\ wk[w].thumbnail /\ thumbFile[wk[w].id]

\* C20: once generate_video_thumbnail_for_instance has returned, the
\* temporary thumbnail file it used is not on disk.
C20_TempFileRemoved ==
    \A i \in VideoIds : ~tempFile[i]

ValidatorDone == vd.pc \in {"returned", "raised"}

\* C21: after comprehensive_video_validator has returned or raised, on any
\* path on which os.unlink itself does not fail, the temporary copy of the
\* upload is not on disk.
C21_TempCopyRemoved ==
    (ValidatorDone /\ vd.env.unlink = "ok") => ~vd.result.temp

\* The constraints of the claim on the file and on what ffprobe reports.
WithinBounds(f, d) ==
    /\ f.present /\ f.size > 0 /\ f.size <= MaxVideoSize
    /\ f.ext \in ALLOWED_EXTENSIONS
    /\ d.streams >= 1
    /\ d.duration >= MinDuration * 1000 /\ d.duration <= MaxDuration * 1000
    /\ d.width >= MinWidth /\ d.width <= MaxWidth
    /\ d.height >= MinHeight /\ d.height <= MaxHeight

\* The constraint an error speaks of.
ConstraintOf(error) ==
    CASE error \in {"no_file", "empty"} -> "not empty"
      [] error = "too_large" -> "maximum size"
      [] error = "extension" -> "extension"
      [] error = "no_video_stream" -> "video stream"
      [] error \in {"no_duration", "too_short"} -> "minimum duration"
      [] error = "too_long" -> "maximum duration"
      [] error \in {"invalid_dimensions", "resolution_too_low"} -> "minimum frame"
      [] error = "resolution_too_high" -> "maximum frame"
      [] OTHER -> "surroundings"

ViolatedConstraints(f, d) ==
    {c \in {"not empty", "maximum size", "extension", "video stream", "minimum duration",
            "maximum duration", "minimum frame", "maximum frame"} :
        \/ c = "not empty" /\ (~f.present \/ f.size = 0)
        \/ c = "maximum size" /\ f.size > MaxVideoSize
        \/ c = "extension" /\ f.ext \notin ALLOWED_EXTENSIONS
        \/ c = "video stream" /\ d.streams = 0
        \/ c = "minimum duration" /\ d.duration < MinDuration * 1000
        \/ c = "maximum duration" /\ d.duration > MaxDuration * 1000
        \/ c = "minimum frame" /\ (d.width < MinWidth \/ d.height < MinHeight)
        \/ c = "maximum frame" /\ (d.width > MaxWidth \/ d.height > MaxHeight)}

\* C22 (as stated): the validator accepts a file exactly when the file is
\* within the bounds on size, extension, video stream, duration and frame,
\* and a rejection names a constraint the file violates.
C22_AcceptsExactlyWithinBounds ==
    ValidatorDone
    => /\ vd.result.accepted <=> WithinBounds(vd.file, vd.env.probe.data)
       /\ ~vd.result.accepted
          => ConstraintOf(vd.result.error) \in ViolatedConstraints(vd.file, vd.env.probe.data)

\* The tool answers the version query, the upload can be copied and
\* ffprobe returns output that parses.
Healthy(e) == e.tool = "ok" /\ e.copy = "ok" /\ e.probe.rc = "ok"

\* C22 (amended): the validator accepts exactly when the tools work and the
\* file is within the bounds; with working tools a rejection names a
\* constraint the file violates, without them the error is about the tools.
C22_AcceptsWithinBoundsIfToolsWork ==
    ValidatorDone
    => /\ vd.result.accepted <=> (Healthy(vd.env) /\ WithinBounds(vd.file, vd.env.probe.data))
       /\ (~vd.result.accepted /\ Healthy(vd.env))
          => ConstraintOf(vd.result.error) \in ViolatedConstraints(vd.file, vd.env.probe.data)
       /\ (~vd.result.accepted /\ ConstraintOf(vd.result.error) = "surroundings")
          => ~Healthy(vd.env)

C22_Witness ==
    /\ vd.pc = "returned" /\ vd.file.size = MaxVideoSize
    /\ vd.env.probe.data.duration = MaxDuration * 1000
    /\ vd.env.probe.data.width = MaxWidth /\ vd.env.probe.data.height = MinHeight

\* The place of an error in the order of the checks.
Stage(error) ==
    CASE error \in {"no_file", "empty"} -> 1
      [] error = "too_large" -> 2
      [] error = "extension" -> 3
      [] error \in {"tool_unavailable", "tool_not_responding", "tool_not_installed"} -> 4
      [] OTHER -> 5

\* The first check in that order the input fails, 0 if none.
FirstViolated(f, e) ==
    IF ~f.present \/ f.size = 0 THEN 1
    ELSE IF f.size > MaxVideoSize THEN 2
    ELSE IF f.ext \notin ALLOWED_EXTENSIONS THEN 3
    ELSE IF e.tool # "ok" THEN 4
    ELSE IF ~(e.copy = "ok" /\ e.probe.rc = "ok" /\ WithinBounds(f, e.probe.data)) THEN 5
    ELSE 0

\* C23: the reported error is the one of the first check that fails in the
\* order empty, size, extension, tool, deep probe; the tool is asked only
\* when the three checks of the file passed, and the temporary copy is made
\* and ffprobe started only when the tool answered as well.
C23_FailFastInOrder ==
    ValidatorDone
    => LET first == FirstViolated(vd.file, vd.env)
       IN  /\ vd.result.accepted <=> first = 0
           /\ ~vd.result.accepted => Stage(vd.result.error) = first
           /\ vd.result.tool_invoked <=> first \notin 1..3
           /\ vd.result.copied <=> first \notin 1..4
           /\ vd.result.probed => vd.result.copied

C23_Witness ==
    /\ vd.pc = "raised" /\ vd.result.error = "too_large"
    /\ vd.file.ext \notin ALLOWED_EXTENSIONS /\ vd.env.tool = "notfound"
    /\ vd.env.probe.rc = "nonzero"
    /\ ~vd.result.tool_invoked /\ ~vd.result.copied

Cleanups == {"video_file", "thumbnail", "hls_files"}

\* C24: on the deletion of an asset each of the three cleanups is called,
\* whether or not another one failed, and the handler raises nothing.
C24_AllCleanupsAttempted ==
    dl.pc = "deleted" => (dl.attempted = Cleanups /\ ~dl.raised)

C24_Witness ==
    /\ dl.pc = "deleted" /\ dl.had.video_file /\ dl.had.thumbnail
    /\ dl.fs.media = "error" /\ dl.fs.thumb = "error"
    /\ dl.attempted = Cleanups /\ ~dl.raised

\* C25: right after the deletion of an asset, in whatever status, during
\* which no filesystem call failed, its original file, the thumbnail its
\* record names and the directory <hlsRoot>/<id>/ are not on disk.
C25_FilesGoneAfterDelete ==
    [][(dl' # dl /\ dl'.fs = [media |-> "ok", thumb |-> "ok", hls |-> "ok"])
       => /\ ~dl'.media_on_disk
          /\ dl'.had.thumbnail => ~thumbFile'[dl'.id]
          /\ ~hlsDir'[dl'.id]]_vars

\* Whether a deletion did what it is for: nothing was there to delete, or
\* the filesystem call worked.
CleanupSucceeded(c) ==
    CASE c = "video_file" -> ~dl.had.video_file \/ dl.fs.media = "ok"
      [] c = "thumbnail" -> ~dl.had.thumbnail \/ dl.fs.thumb = "ok"
      [] c = "hls_files" -> ~dl.had.hls_path \/ ~hlsDir[dl.id] \/ dl.fs.hls = "ok"

\* C26: the summary of a deletion marks a cleanup as successful exactly
\* when that cleanup succeeded.
C26_SummaryTellsTheTruth ==
    [][(dl' # dl) => \A c \in Cleanups : dl'.cleanup_results[c] <=> (CleanupSucceeded(c))']_vars

\* C28: a job is an asset id; a worker that picks one up loads the record
\* as it is persisted then, and when the record is not there the job
\* returns False at once: no record is created or changed, no file is
\* touched and no validation, thumbnail or transcoding step is started.
C28_MissingRecordAtPickup ==
    [][\A w \in Workers :
        (wk[w].pc \in {"idle", "done"} /\ wk'[w] # wk[w])
        => LET id == Head(queue)
           IN  /\ id \in VideoIds /\ wk'[w].id = id
               /\ wk'[w].pc = "loaded"
                  => /\ db[id].exists
                     /\ wk'[w].title = db[id].title
                     /\ wk'[w].video_file = db[id].video_file
                     /\ wk'[w].thumbnail = db[id].thumbnail
                     /\ wk'[w].hls_processed = db[id].hls_processed
               /\ ~db[id].exists
                  => /\ wk'[w] = [IdleWorker EXCEPT !.pc = "done", !.id = id, !.ret = "False"]
                     /\ db' = db /\ thumbFile' = thumbFile /\ tempFile' = tempFile
                     /\ hlsDir' = hlsDir /\ hlsFile' = hlsFile]_vars

C28_Witness ==
    \E w \in Workers :
        /\ wk[w].pc = "done" /\ wk[w].ret = "False" /\ wk[w].valid = "none"
        /\ wk[w].id \in VideoIds /\ ~wk[w].category
        /\ dl.pc = "deleted" /\ dl.id = wk[w].id /\ ~db[wk[w].id].exists

\* C27: the regenerate action on an asset whose status is failed puts the
\* asset back to pending and adds a job of the processing pipeline for it
\* (until then a failed asset stays failed, see C3).
C27_RegenerateRequeuesFailed ==
    [][(th.pc = "loaded" /\ th'.pc = "idle" /\ th'.last = "regenerate"
          /\ db[th.id].status = "failed")
       => (db'[th.id].status = "pending" /\ Waiting(th.id)' > Waiting(th.id))]_vars

HeightOf(name) ==
    LET k == CHOOSE j \in DOMAIN get_resolution_configs : get_resolution_configs[j].name = name
    IN  get_resolution_configs[k].height

Available(inst, listing) ==
    {listing[k].name : k \in
        {j \in DOMAIN listing :
            /\ inst.hls_processed /\ inst.hls_path
            /\ listing[j].isdir /\ listing[j].manifest
            /\ listing[j].name \in {"120p", "360p", "480p", "720p", "1080p"}}}

C32_CleanupReturn ==
    hr.pc = "cleaned"
    => /\ (~hr.inst.hls_path \/ ~hr.exists)
          => (hr.ret /\ hr.exists_after = hr.exists /\ hr.listing_after = hr.listing)
       /\ ~hr.ret => (hr.inst.hls_path /\ hr.exists /\ hr.rmtree = "error")

C32_Witness ==
    hr.pc = "cleaned" /\ hr.inst.hls_path /\ ~hr.exists /\ hr.ret /\ ~hr.exists_after

\* C33: an asset left pending by a deferral of both enqueue attempts, and
\* saved again when the depth is at most the threshold (validation passing,
\* queue answering), eventually has a job.
C33_DeferredEventuallyEnqueued ==
    \A i \in VideoIds :
        (rq.scen = "deferred_resaved" /\ rq.id = i /\ db[i].status = "pending")
        ~> (enq[i] > 0)

\* C37: a step on an existing asset that is not part of its creating save
\* (a later save, the saves of the worker) adds no job for it, and no later
\* save runs the pre-validation.
C37_LaterSavesDoNotEnqueue ==
    [][\A i \in VideoIds :
        (db[i].exists /\ ~(rq.pc = "queue" /\ rq.id = i))
        => /\ enq'[i] = enq[i]
           /\ Waiting(i)' <= Waiting(i)
           /\ rq'.scen # "revalidated"]_vars

C37_Witness ==
    /\ rq.scen = "deferred_resaved" /\ db[rq.id].status = "pending"
    /\ enq[rq.id] = 0 /\ queue = <<>>

\* a worker is inside process_video_with_thumbnail
Running(w) ==
    wk[w].pc \in {"loaded", "validate", "thumbnail", "hls", "convert", "hls_finalize", "final"}

\* C34: two jobs that run at the same time concern different assets.
C34_NoTwoJobsOnOneAsset ==
    \A v, w \in Workers : (v # w /\ Running(v) /\ Running(w)) => wk[v].id # wk[w].id

\* A step of ApiSpec that is no step of Video.save and no thumbnail
\* operation: a read request.
ReadRequest == rq' = rq /\ th' = th

\* C38: a read request (video list, video detail) adds no job to the queue
\* and changes the processing_status of no asset.
C38_ReadsChangeNothing ==
    [][ReadRequest => (queue' = queue /\ \A i \in VideoIds : db'[i].status = db[i].status)]_vars

\* C39: when an asset was deleted, with no filesystem call of the deletion
\* failing, while a job for it was queued or running, then once no job of
\* the asset is queued or running any more the record does not exist and
\* neither a thumbnail nor an index.m3u8 of the asset is on disk.
C39_DeletedStaysDeleted ==
    (/\ dl.pc = "deleted"
     /\ dl.job \in {"queued", "running"}
     /\ dl.fs = [media |-> "ok", thumb |-> "ok", hls |-> "ok"]
     /\ Waiting(dl.id) = 0
     /\ \A w \in Workers : Running(w) => wk[w].id # dl.id)
    => (~db[dl.id].exists /\ ~thumbFile[dl.id] /\ ~hlsFile[dl.id])

\* C36: while a job is in the loop over the profiles, the encoders it has
\* started are those of the profiles before the current one, one each, in
\* the order of the profile table: no profile is started twice, whether
\* its encoder succeeded, failed or timed out.
C36_EncoderOncePerProfile ==
    \A w \in Workers :
        wk[w].pc \in {"convert", "hls_finalize"}
        => /\ wk[w].idx \in 1..6
           /\ wk[w].started = [k \in 1..(wk[w].idx - 1) |-> get_resolution_configs[k].name]
           /\ wk[w].cnt <= Len(wk[w].started)

C36_Witness ==
    \E w \in Workers :
        /\ wk[w].pc = "hls_finalize" /\ wk[w].cnt = 2
        /\ wk[w].started = <<"120p", "360p", "480p", "720p", "1080p">>

\* The scale filter and the buffer size of the profiles, written out.
ExpectedScale(name) ==
    CASE name = "120p" -> "scale=214:120"
      [] name = "360p" -> "scale=640:360"
      [] name = "480p" -> "scale=854:480"
      [] name = "720p" -> "scale=1280:720"
      [] name = "1080p" -> "scale=1920:1080"

ExpectedBufsize(name) ==
    CASE name = "120p" -> "600k"
      [] name = "360p" -> "1600k"
      [] name = "480p" -> "2400k"
      [] name = "720p" -> "5000k"
      [] name = "1080p" -> "10000k"

\* the argument value follows the argument flag in the command
Follows(command, flag, value) ==
    \E k \in 1..(Len(command) - 1) : command[k] = flag /\ command[k + 1] = value

\* C40: the command built for a profile has the source path as input, the
\* scale filter of the profile, its bitrate as target and as maximum rate,
\* a buffer size of twice the bitrate, segments of 10 seconds, a playlist
\* of unbounded size and the segment template %03d.ts in the directory of
\* the profile.
C40_EncoderCommand ==
    fc.pc = "built"
    => LET r == fc.resolution
           c == fc.command
       IN  /\ Follows(c, "-i", fc.video_path)
           /\ Follows(c, "-vf", ExpectedScale(r.name))
           /\ Follows(c, "-b:v", r.bitrate)
           /\ Follows(c, "-maxrate", r.bitrate)
           /\ Follows(c, "-bufsize", ExpectedBufsize(r.name))
           /\ Follows(c, "-hls_time", "10")
           /\ Follows(c, "-hls_list_size", "0")
           /\ Follows(c, "-hls_segment_filename",
                      "/srv/media/hls/" \o ToString(fc.id) \o "/" \o r.name \o "/%03d.ts")

C40_Witness ==
    /\ fc.pc = "built" /\ fc.id = 27 /\ fc.resolution.name = "1080p"
    /\ Follows(fc.command, "-i", "/srv/media/videos/film_2.mp4")
    /\ Follows(fc.command, "-bufsize", "10000k")
    /\ Follows(fc.command, "-vf", "scale=1920:1080")
    /\ Follows(fc.command, "-hls_segment_filename", "/srv/media/hls/27/1080p/%03d.ts")

\* What holds of a call of the thumbnail step at every point of it.
ThumbnailLoopBounds ==
    tp.pc # "none"
    => /\ tp.started <= 3
       /\ tp.attempt <= 3
       \* the timestamps of an attempt: 10s, 5s, 2s, 1s in this order, and
       \* nothing after the first image
       /\ tp.tried = SubSeq(<<"00:00:10", "00:00:05", "00:00:02", "00:00:01">>,
                            1, Len(tp.tried))
       /\ Len(tp.seen) = Len(tp.tried)
       /\ \A k \in DOMAIN tp.seen : tp.seen[k] = "image" => k = Len(tp.seen)
       /\ tp.pc = "store" => (tp.seen # <<>> /\ tp.seen[Len(tp.seen)] = "image")
       \* a sleep has a failed attempt before it and an attempt after it
       /\ tp.sleeps <= 2
       /\ tp.pc = "sleep" => (tp.failed = tp.started /\ tp.started < 3)
       /\ tp.sleeps = IF tp.pc = "attempt" THEN tp.started
                      ELSE IF tp.started = 0 THEN 0 ELSE tp.started - 1
       \* the placeholder: once, after three failed attempts
       /\ tp.defaults <= 1
       /\ (tp.pc = "default" \/ tp.defaults = 1) => (tp.started = 3 /\ tp.failed = 3)
       /\ tp.defaults = 1 => tp.pc = "returned"

\* C35: the thumbnail step returns; up to there it has made at most 3
\* attempts, each attempt has tried the timestamps 10s, 5s, 2s, 1s in this
\* order and none after the first non-empty image, it has slept only
\* between two attempts (at most twice), and it has called the placeholder
\* generator at most once and only after 3 failed attempts.
C35_ThumbnailStepTerminates ==
    /\ []ThumbnailLoopBounds
    /\ <>(tp.pc = "returned")

C35_Witness ==
    /\ tp.pc = "returned" /\ tp.defaults = 1 /\ tp.sleeps = 2 /\ tp.started = 3
    /\ tp.tried = <<"00:00:10", "00:00:05", "00:00:02", "00:00:01">>
    /\ tp.seen = <<"empty", "failed", "timeout", "empty">>

====
